---- MODULE Spec2Model ----
(***************************************************************************)
(* A model of the sprachli pipeline: the AST-to-bytecode compiler, the     *)
(* bytecode writer, the bytecode parser, the instruction decoder and the   *)
(* stack-based virtual machine.                                            *)
(*                                                                         *)
(* Strings (identifiers, string constants) are sequences of character      *)
(* codes; bytes are integers in 0..255; an Option<T> is a sequence of      *)
(* length 0 or 1.  Instruction indices and stack slots are 0-based as in   *)
(* the source, so element i of a Vec v is v[i + 1].                        *)
(***************************************************************************)
EXTENDS Integers, Sequences, FiniteSets, TLC

VARIABLES
    ast,        \* ast::SourceFile handed to compile_ast: the declarations
    pc,         \* position in the pipeline compile_ast -> parse_bytecode -> Vm::run
    next_decl,  \* visit_source_file: index of the next declaration to visit
    compiler,   \* the Compiler (constants, constants_map, struct_types, globals)
    cerr,       \* the compiler's Result: "" while Ok, else the error
    output,     \* the bytes written to w by write_bytecode
    module,     \* the sprachli_bytecode::Module returned by parse_bytecode
    stack,      \* Vm.stack
    frames,     \* the active invocations of Vm::call, innermost last
    run,        \* how many times Vm::run was started on the module
    outcomes,   \* the outcome of each finished run
    last        \* history: the most recent events the properties speak about

vars == <<ast, pc, next_decl, compiler, cerr, output, module, stack, frames,
          run, outcomes, last>>

----------------------------------------------------------------------------
(* Generic helpers *)

None == <<>>
Some(x) == <<x>>
IsSome(o) == Len(o) = 1
Unwrap(o) == o[1]

EmptyMap == <<>>
MapInsert(m, k, v) == (k :> v) @@ m

Min(a, b) == IF a < b THEN a ELSE b
\* the set of the elements of a sequence
Range(seq) == {seq[i] : i \in 1..Len(seq)}
\* the least member of a set of numbers that is not empty
Minimum(S) == CHOOSE x \in S : \A y \in S : x <= y

\* v[from .. to) with 0-based indices, as a Rust slice range
Slice(v, from, to) == SubSeq(v, from + 1, to)

\* iter::repeat(x).take(n)
Repeat(x, n) == [j \in 1..n |-> x]

\* the concatenation of seqs[lo], ..., seqs[hi]; long sequences are folded
\* by halves, which keeps the evaluation shallow
RECURSIVE ConcatRange(_, _, _)
ConcatRange(seqs, lo, hi) ==
    IF lo > hi THEN <<>>
    ELSE IF lo = hi THEN seqs[lo]
    ELSE ConcatRange(seqs, lo, (lo + hi) \div 2)
             \o ConcatRange(seqs, (lo + hi) \div 2 + 1, hi)

Concat(seqs) == ConcatRange(seqs, 1, Len(seqs))

\* `n as u8` and `n as u16`
AsU8(n) == n % 256
AsU16(n) == n % 65536
U16Be(n) == <<AsU16(n) \div 256, AsU16(n) % 256>>

----------------------------------------------------------------------------
(* Instruction model *)

Ins(op, arg, sub) == [op |-> op, arg |-> arg, sub |-> sub]

Constant(index) == Ins("Constant", index, "")
InlineUnit == Ins("InlineConstant", 0, "Unit")
InlineBool(b) == Ins("InlineConstant", 0, IF b THEN "True" ELSE "False")
Unary(operator) == Ins("Unary", 0, operator)
Binary(operator) == Ins("Binary", 0, operator)
LoadLocal(index) == Ins("LoadLocal", index, "")
StoreLocal(index) == Ins("StoreLocal", index, "")
LoadNamed(index) == Ins("LoadNamed", index, "")
StoreNamed(index) == Ins("StoreNamed", index, "")
Pop == Ins("Pop", 0, "")
PopScope(depth) == Ins("PopScope", depth, "")
Call(arity) == Ins("Call", arity, "")
Return == Ins("Return", 0, "")
Jump(dir, offset) == Ins("Jump", offset, dir)
JumpIf(dir, offset) == Ins("JumpIf", offset, dir)
\* InstructionItem::Placeholder(kind), kind \in {"Jump", "JumpIf"}
PlaceholderItem(kind) == Ins("Placeholder", 0, kind)

\* InstructionItem::real
IsReal(item) == item.op # "Placeholder"

\* Instruction::stack_effect is None exactly for PopScope
HasStackEffect(item) == item.op # "PopScope"

\* PlaceholderKind::stack_effect
PlaceholderStackEffect(kind) == IF kind = "Jump" THEN 0 ELSE -1

\* InstructionItem::stack_effect, where it is Some
StackEffect(item) ==
    CASE item.op \in {"Constant", "InlineConstant", "LoadLocal", "LoadNamed",
                      "LoadPositionalField", "LoadNamedField"} -> 1
      [] item.op \in {"StoreLocal", "StoreNamed", "StorePositionalField",
                      "StoreNamedField", "Binary", "Pop", "Return", "JumpIf"} -> -1
      [] item.op \in {"Unary", "Jump"} -> 0
      [] item.op = "Call" -> 0 - item.arg
      [] item.op = "Placeholder" -> PlaceholderStackEffect(item.sub)

\* a placeholder that takes the room of its opcode only
PlaceholderEncodedLenOpcode(kind) == 1

\* PlaceholderKind::encoded_len
PlaceholderEncodedLen(kind) == 2

\* Instruction::encoded_len
InstructionEncodedLen(ins) ==
    IF ins.op \in {"InlineConstant", "Pop", "Return"} THEN 1 ELSE 2

\* InstructionItem::encoded_len
EncodedLen(item) ==
    IF item.op = "Placeholder" THEN PlaceholderEncodedLen(item.sub)
    ELSE InstructionEncodedLen(item)

\* PlaceholderKind::jump
PlaceholderJump(kind, dir, offset) ==
    IF kind = "Jump" THEN Jump(dir, offset) ELSE JumpIf(dir, offset)

UnaryOperators == <<"Negate", "Not">>
BinaryOperators ==
    <<"Multiply", "Divide", "Modulo", "Add", "Subtract", "RightShift",
      "LeftShift", "BitAnd", "BitXor", "BitOr", "Equals", "NotEquals",
      "Greater", "GreaterEquals", "Less", "LessEquals">>

\* the position of an enum variant is its #[repr(u8)] discriminant
IndexOf(seq, x) == CHOOSE i \in 1..Len(seq) : seq[i] = x
Discriminant(variants, x) == IndexOf(variants, x) - 1

\* Opcode, #[repr(u8)] with IntoPrimitive / TryFromPrimitive
Opcodes ==
    <<"Constant", "Unit", "True", "False", "Unary", "Binary", "LoadLocal",
      "StoreLocal", "LoadNamed", "StoreNamed", "LoadPositionalField",
      "StorePositionalField", "LoadNamedField", "StoreNamedField", "Pop",
      "PopScope", "Call", "Return", "JumpForward", "JumpBackward",
      "JumpForwardIf", "JumpBackwardIf">>

\* Opcode::into(): the byte of an opcode
OpcodeByte(opcode) == Discriminant(Opcodes, opcode)

----------------------------------------------------------------------------
(* Literals *)

Digits == 48..57

\* BigDecimal::from_str / BigDecimal::parse_bytes(_, 10) on the literals the
\* model uses (unsigned integers): None when the text is not a number
RECURSIVE DecimalValue(_, _)
DecimalValue(text, n) ==
    IF n = 0 THEN 0 ELSE DecimalValue(text, n - 1) * 10 + (text[n] - 48)

ParseNumber(text) ==
    IF text # <<>> /\ \A i \in 1..Len(text) : text[i] \in Digits
    THEN Some(DecimalValue(text, Len(text)))
    ELSE None

\* BigDecimal::to_string of an unsigned integer: its base-10 digits
RECURSIVE NumberToString(_)
NumberToString(n) ==
    IF n < 10 THEN <<48 + n>> ELSE NumberToString(n \div 10) \o <<48 + (n % 10)>>

Quote == 34
Backslash == 92

\* string_from_literal: [err |-> "", string |-> s] or [err |-> e, string |-> <<>>];
\* i is the 1-based position of the next character of iter
RECURSIVE StringBody(_, _, _)
StringBody(literal, i, string) ==
    IF i > Len(literal) THEN [err |-> "MissingClosedQuote", string |-> <<>>]
    ELSE LET ch == literal[i] IN
        CASE ch = Backslash ->
                IF i + 1 > Len(literal)
                THEN [err |-> "UnfinishedEscapeSequence", string |-> <<>>]
                ELSE LET esc == literal[i + 1] IN
                    CASE esc \in {Backslash, Quote} ->
                            StringBody(literal, i + 2, Append(string, esc))
                      [] esc = 110 -> StringBody(literal, i + 2, Append(string, 10))
                      [] esc = 114 -> StringBody(literal, i + 2, Append(string, 13))
                      [] esc = 116 -> StringBody(literal, i + 2, Append(string, 9))
                      [] OTHER -> [err |-> "IllegalEscapeSequence", string |-> <<>>]
          [] ch = Quote ->
                IF i + 1 <= Len(literal)
                THEN [err |-> "TrailingContent", string |-> <<>>]
                ELSE [err |-> "", string |-> string]
          [] OTHER -> StringBody(literal, i + 1, Append(string, ch))

\* string_from_literal that does not look at the first character
StringFromLiteralAnyOpening(literal) ==
    IF literal = <<>>
    THEN [err |-> "MissingOpenQuote", string |-> <<>>]
    ELSE StringBody(literal, 2, <<>>)

string_from_literal(literal) ==
    IF literal = <<>> \/ literal[1] # Quote
    THEN [err |-> "MissingOpenQuote", string |-> <<>>]
    ELSE StringBody(literal, 2, <<>>)

----------------------------------------------------------------------------
(* Compiler: constants *)

NumberConstant(n) == [k |-> "Number", n |-> n, s |-> <<>>, arity |-> 0, body |-> <<>>]
StringConstant(s) == [k |-> "String", n |-> 0, s |-> s, arity |-> 0, body |-> <<>>]
\* constant::Function::new(arity, body) as a Constant
FunctionConstant(arity, body) ==
    [k |-> "Function", n |-> 0, s |-> <<>>, arity |-> arity, body |-> body]

\* Compiler::new; fn_vdepth and log are history (not in the source): for each
\* function constant the virtual-stack length recorded at each of its
\* instructions, and the events the properties speak about
NewCompiler ==
    [constants |-> <<>>, constants_map |-> EmptyMap, struct_types |-> EmptyMap,
     globals |-> EmptyMap, fn_vdepth |-> <<>>, log |-> <<>>]

\* Compiler::add_constant: the index it returns
AddConstantIndex(c, constant) ==
    IF constant \in DOMAIN c.constants_map
    THEN c.constants_map[constant]
    ELSE Len(c.constants)

\* add_constant without the lookup in constants_map: every call appends
AddConstantAlwaysPush(c, constant) ==
    [c EXCEPT !.constants = Append(@, constant),
              !.constants_map = MapInsert(@, constant, Len(c.constants)),
              !.fn_vdepth = Append(@, <<>>)]

\* Compiler::add_constant: the compiler afterwards
AddConstant(c, constant) ==
    IF constant \in DOMAIN c.constants_map
    THEN c
    ELSE [c EXCEPT !.constants = Append(@, constant),
                   !.constants_map = MapInsert(@, constant, Len(c.constants)),
                   !.fn_vdepth = Append(@, <<>>)]

\* Compiler::add_global
AddGlobal(c, name, value) ==
    LET c1 == AddConstant(c, StringConstant(name))
        c2 == AddConstant(c1, value)
    IN [c2 EXCEPT !.globals = MapInsert(@, AddConstantIndex(c, StringConstant(name)),
                                           AddConstantIndex(c1, value))]

Logged(c, event) == [c EXCEPT !.log = Append(@, event)]

----------------------------------------------------------------------------
(* Compiler: InstructionCompiler *)

\* a slot of the virtual stack: Option<ast::Variable>
NoVar == [named |-> FALSE, name |-> <<>>, mutable |-> FALSE]
Var(name, mutable) == [named |-> TRUE, name |-> name, mutable |-> mutable]

\* InstructionCompiler::new; err is the Result of the visit so far ("" is Ok,
\* "panic: ..." a failed assert!/unwrap/todo!), vdepth is history: the length
\* of the virtual stack when each instruction was pushed; placed and filled
\* are history too: the placeholders pushed and the slots assigned through
\* Placeholder::slot; id, the place of the event logged here, tells the
\* InstructionCompilers apart in the log
NewInstructionCompiler(c) ==
    [compiler |-> Logged(c, [what |-> "new", name |-> <<>>, stack |-> <<>>,
                             targets |-> 0, emitted |-> <<>>, err |-> "",
                             fn |-> Len(c.log) + 1]),
     stack |-> <<>>, jump_targets |-> <<>>, instructions |-> <<>>,
     vdepth |-> <<>>, err |-> "", placed |-> <<>>, filled |-> <<>>,
     id |-> Len(c.log) + 1]

IsOk(s) == s.err = ""
Fail(s, e) == [s EXCEPT !.err = e]

\* InstructionCompiler::apply_stack_effect
ApplyStackEffect(s, effect) ==
    IF effect >= 0
    THEN [s EXCEPT !.stack = @ \o Repeat(NoVar, effect)]
    ELSE IF Len(s.stack) < 0 - effect
         THEN Fail(s, "InvalidStackEffect")
         ELSE [s EXCEPT !.stack = SubSeq(@, 1, Len(@) + effect)]

Emit(s, item, depth_before) ==
    [s EXCEPT !.instructions = Append(@, item), !.vdepth = Append(@, depth_before)]

\* InstructionCompiler::push
Push(s, instruction) ==
    IF ~IsOk(s) THEN s
    ELSE IF HasStackEffect(instruction)
    THEN LET s1 == ApplyStackEffect(s, StackEffect(instruction))
         IN IF IsOk(s1) THEN Emit(s1, instruction, Len(s.stack)) ELSE s1
    ELSE \* PopScope(depth): self.stack.drain(depth..end)
         IF Len(s.stack) = 0 THEN Fail(s, "InvalidStackEffect")
         ELSE LET depth == instruction.arg
                  end == Len(s.stack) - 1
              IN IF depth > end THEN Fail(s, "panic: slice index")
                 ELSE Emit([s EXCEPT !.stack = Slice(@, 0, depth) \o Slice(@, end, Len(@))],
                           instruction, Len(s.stack))

\* InstructionCompiler::push_placeholder; the Placeholder it returns is
\* Placeholder(Len(s.instructions), kind), taken on the state before
PushPlaceholder(s, kind) ==
    IF ~IsOk(s) THEN s
    ELSE LET s1 == ApplyStackEffect(s, PlaceholderStackEffect(kind))
         IN IF IsOk(s1)
            THEN [Emit(s1, PlaceholderItem(kind), Len(s.stack)) EXCEPT
                     !.placed = Append(@, [index |-> Len(s.instructions), kind |-> kind])]
            ELSE s1

Placeholder(index, kind) == [index |-> index, kind |-> kind]

\* Placeholder::encoded_len over instructions[from .. to), summed by halves
RECURSIVE RangeEncodedLen(_, _, _)
RangeEncodedLen(instructions, from, to) ==
    IF from >= to THEN 0
    ELSE IF from + 1 = to THEN EncodedLen(instructions[to])
    ELSE RangeEncodedLen(instructions, from, (from + to) \div 2)
             + RangeEncodedLen(instructions, (from + to) \div 2, to)

\* Placeholder::slot followed by the assignment through it
FillSlot(s, pl, item) ==
    IF s.instructions[pl.index + 1] # PlaceholderItem(pl.kind)
    THEN Fail(s, "panic: assert slot")
    ELSE [s EXCEPT !.instructions[pl.index + 1] = item,
                   !.filled = Append(@, [index |-> pl.index, kind |-> pl.kind,
                                         item |-> item,
                                         was |-> s.instructions[pl.index + 1]])]

\* a patch that jumps as far back as the current instruction is ahead
JumpBackByCurrent(s, pl) ==
    IF ~IsOk(s) THEN s
    ELSE FillSlot(s, pl,
            PlaceholderJump(pl.kind, "Backward",
                RangeEncodedLen(s.instructions, pl.index + 1, Len(s.instructions))))

\* Placeholder::jump_fwd_to_current
JumpFwdToCurrent(s, pl) ==
    IF ~IsOk(s) THEN s
    ELSE FillSlot(s, pl,
            PlaceholderJump(pl.kind, "Forward",
                RangeEncodedLen(s.instructions, pl.index + 1, Len(s.instructions))))

\* Placeholder::jump_back_to_index
JumpBackToIndex(s, pl, to_index) ==
    IF ~IsOk(s) THEN s
    ELSE FillSlot(s, pl,
            PlaceholderJump(pl.kind, "Backward",
                RangeEncodedLen(s.instructions, to_index, pl.index + 1)))

\* find_local that searches the virtual stack from the bottom
FindLocalFromBottom(s, name) ==
    LET found == {i \in 0..(Len(s.stack) - 1) :
                     s.stack[i + 1].named /\ s.stack[i + 1].name = name}
    IN IF found = {} THEN None
       ELSE Some(CHOOSE i \in found : \A j \in found : i <= j)

\* InstructionCompiler::find_local: None, or Some of the slot found
FindLocal(s, name) ==
    LET found == {i \in 0..(Len(s.stack) - 1) :
                     s.stack[i + 1].named /\ s.stack[i + 1].name = name}
    IN IF found = {} THEN None
       ELSE Some(CHOOSE i \in found : \A j \in found : j <= i)

\* JumpTarget::new
JumpTarget(depth, start) == [depth |-> depth, start |-> start, end_jumps |-> <<>>]

\* InstructionCompiler::push_jump_target
PushJumpTarget(s) ==
    [s EXCEPT !.jump_targets =
        Append(@, JumpTarget(Len(s.stack), Len(s.instructions)))]

\* fill_end_jumps that fills no jump
FillNoEndJumps(s, end_jumps, i) == s

\* JumpTarget::fill_end_jumps
RECURSIVE FillEndJumps(_, _, _)
FillEndJumps(s, end_jumps, i) ==
    IF i > Len(end_jumps) THEN s
    ELSE FillEndJumps(JumpFwdToCurrent(s, end_jumps[i]), end_jumps, i + 1)

\* InstructionCompiler::pop_jump_target().unwrap()
PopJumpTarget(s) ==
    IF ~IsOk(s) THEN s
    ELSE IF s.jump_targets = <<>> THEN Fail(s, "panic: unwrap")
    ELSE LET jump_target == s.jump_targets[Len(s.jump_targets)]
             s1 == [s EXCEPT !.jump_targets = SubSeq(@, 1, Len(@) - 1)]
         IN FillEndJumps(s1, jump_target.end_jumps, 1)

----------------------------------------------------------------------------
(* The AST (ast::SourceFile and below) *)

Variable(name, mutable) == Var(name, mutable)

ExprNumber(literal) == [t |-> "Number", literal |-> literal]
ExprBool(value) == [t |-> "Bool", value |-> value]
ExprString(literal) == [t |-> "String", literal |-> literal]
ExprIdentifier(name) == [t |-> "Identifier", name |-> name]
ExprBinary(operator, left, right) ==
    [t |-> "Binary", operator |-> operator, left |-> left, right |-> right]
ExprUnary(operator, right) == [t |-> "Unary", operator |-> operator, right |-> right]
ExprCall(function, actual_parameters) ==
    [t |-> "Call", function |-> function, actual_parameters |-> actual_parameters]
Block(statements, expression) == [statements |-> statements, expression |-> expression]
ExprBlock(block) == [t |-> "Block", block |-> block]
FnTrunk(formal_parameters, body) ==
    [formal_parameters |-> formal_parameters, body |-> body]
ExprFn(trunk) == [t |-> "Fn", trunk |-> trunk]
ExprIf(then_branches, else_branch) ==
    [t |-> "If", then_branches |-> then_branches, else_branch |-> else_branch]
ExprLoop(body) == [t |-> "Loop", body |-> body]

StmtDeclaration(decl) == [t |-> "Declaration", decl |-> decl]
StmtExpression(expr) == [t |-> "Expression", expr |-> expr]
StmtReturn(expr) == [t |-> "Jump", jump |-> "Return", expr |-> expr]
StmtBreak(expr) == [t |-> "Jump", jump |-> "Break", expr |-> expr]
StmtContinue == [t |-> "Jump", jump |-> "Continue", expr |-> None]
StmtVariableDeclaration(variable, initializer) ==
    [t |-> "VariableDeclaration", variable |-> variable, initializer |-> initializer]
StmtAssignment(left, right) == [t |-> "Assignment", left |-> left, right |-> right]

DeclUse == [t |-> "Use"]
DeclFn(name, trunk) == [t |-> "Fn", name |-> name, trunk |-> trunk]
DeclStruct(name, kind, fields) ==
    [t |-> "Struct", name |-> name, kind |-> kind, fields |-> fields]
DeclMixin == [t |-> "Mixin"]
DeclImpl == [t |-> "Impl"]

----------------------------------------------------------------------------
(* Compiler: the visitors of InstructionCompiler *)

\* the compiler behind the &mut reference, updated
WithCompiler(s, c) == [s EXCEPT !.compiler = c]

\* self.compiler.add_constant(constant) followed by self.push(make(index))
PushConstantRef(s, constant, kind) ==
    LET index == AddConstantIndex(s.compiler, constant)
        s1 == WithCompiler(s, AddConstant(s.compiler, constant))
    IN Push(s1, Ins(kind, index, ""))

\* InstructionCompiler::visit_number
VisitNumber(s, literal) ==
    LET number == ParseNumber(literal)
    IN IF ~IsSome(number) THEN Fail(s, "InvalidNumberLiteral")
       ELSE PushConstantRef(s, NumberConstant(Unwrap(number)), "Constant")

\* InstructionCompiler::visit_bool
VisitBool(s, value) == Push(s, InlineBool(value))

\* InstructionCompiler::visit_string
VisitString(s, literal) ==
    LET parsed == string_from_literal(literal)
    IN IF parsed.err # "" THEN Fail(s, "InvalidStringLiteral")
       ELSE PushConstantRef(s, StringConstant(parsed.string), "Constant")

\* InstructionCompiler::visit_identifier; the event logged is the virtual
\* stack the name was looked up in and what was then emitted
VisitIdentifier(s, name) ==
    LET local == FindLocal(s, name)
        Log(s1) ==
            WithCompiler(s1, Logged(s1.compiler,
                [what |-> "identifier", name |-> name, stack |-> s.stack,
                 targets |-> Len(s.jump_targets),
                 emitted |-> SubSeq(s1.instructions, Len(s.instructions) + 1,
                                    Len(s1.instructions)),
                 err |-> s1.err, fn |-> s.id]))
    IN Log(IF IsSome(local) THEN Push(s, LoadLocal(Unwrap(local)))
           ELSE PushConstantRef(s, StringConstant(name), "LoadNamed"))

\* the store of an assignment without the check of `mutable`
StoreToAnyLocal(s, name) ==
    LET local == FindLocal(s, name)
        Log(s1) ==
            WithCompiler(s1, Logged(s1.compiler,
                [what |-> "assignment", name |-> name, stack |-> s.stack,
                 targets |-> Len(s.jump_targets),
                 emitted |-> SubSeq(s1.instructions, Len(s.instructions) + 1,
                                    Len(s1.instructions)),
                 err |-> s1.err]))
    IN Log(IF IsSome(local) THEN Push(s, StoreLocal(Unwrap(local)))
           ELSE PushConstantRef(s, StringConstant(name), "StoreNamed"))

\* the part of visit_assignment after the right side was lowered; the event
\* logged is what the statement resolved and what it then emitted
StoreTo(s, name) ==
    LET local == FindLocal(s, name)
        mutable == IsSome(local) /\ s.stack[Unwrap(local) + 1].mutable
        Log(s1) ==
            WithCompiler(s1, Logged(s1.compiler,
                [what |-> "assignment", name |-> name, stack |-> s.stack,
                 targets |-> Len(s.jump_targets),
                 emitted |-> SubSeq(s1.instructions, Len(s.instructions) + 1,
                                    Len(s1.instructions)),
                 err |-> s1.err]))
    IN Log(IF IsSome(local)
           THEN IF ~mutable THEN Fail(s, "ImmutableVariable")
                ELSE Push(s, StoreLocal(Unwrap(local)))
           ELSE PushConstantRef(s, StringConstant(name), "StoreNamed"))

RECURSIVE Visit(_, _, _)
RECURSIVE VisitExpressions(_, _, _, _)
RECURSIVE VisitStatements(_, _, _, _)
RECURSIVE VisitThenBranches(_, _, _, _)

\* InstructionCompiler::visit_optional
VisitOptional(s, expr) ==
    IF IsSome(expr) THEN Visit(s, "expression", Unwrap(expr)) ELSE Push(s, InlineUnit)

\* the loop over call.actual_parameters in visit_call, for the parameters
\* lo..hi in order (first one half, then the other)
VisitExpressions(s, exprs, lo, hi) ==
    IF ~IsOk(s) \/ lo > hi THEN s
    ELSE IF lo = hi THEN Visit(s, "expression", exprs[lo])
    ELSE VisitExpressions(VisitExpressions(s, exprs, lo, (lo + hi) \div 2),
                          exprs, (lo + hi) \div 2 + 1, hi)

\* visit_binary that compiles the right operand before the left one
VisitBinaryRightFirst(s, expr) ==
    Push(Visit(Visit(s, "expression", expr.right), "expression", expr.left),
         Binary(expr.operator))

\* InstructionCompiler::visit_binary
VisitBinary(s, expr) ==
    Push(Visit(Visit(s, "expression", expr.left), "expression", expr.right),
         Binary(expr.operator))

\* InstructionCompiler::visit_unary
VisitUnary(s, expr) ==
    Push(Visit(s, "expression", expr.right), Unary(expr.operator))

\* InstructionCompiler::visit_call
VisitCall(s, call) ==
    Push(VisitExpressions(Visit(s, "expression", call.function), call.actual_parameters,
                          1, Len(call.actual_parameters)),
         Call(Len(call.actual_parameters)))

\* the event a break or continue statement leaves in the log
JumpEvent(s, s1, what) ==
    WithCompiler(s1, Logged(s1.compiler,
        [what |-> what, name |-> <<>>, stack |-> s.stack,
         targets |-> Len(s.jump_targets),
         emitted |-> SubSeq(s1.instructions, Len(s.instructions) + 1,
                            Len(s1.instructions)),
         err |-> s1.err,
         depth |-> IF s.jump_targets = <<>> THEN 0
                   ELSE s.jump_targets[Len(s.jump_targets)].depth,
         after |-> s1.stack, fn |-> s.id, index |-> Len(s1.instructions) - 1]))

\* current_jump_target_mut().unwrap().push_end_jump(jump)
PushEndJump(s, jump) ==
    IF ~IsOk(s) THEN s
    ELSE IF s.jump_targets = <<>> THEN Fail(s, "panic: unwrap")
    ELSE [s EXCEPT !.jump_targets[Len(s.jump_targets)].end_jumps = Append(@, jump)]

\* apply_stack_effect(effect)? in a chain of statements
ThenApplyStackEffect(s, effect) == IF IsOk(s) THEN ApplyStackEffect(s, effect) ELSE s

\* let jump = push_placeholder(Jump)?; then push_end_jump(jump)
PushEndJumpPlaceholder(s) ==
    PushEndJump(PushPlaceholder(s, "Jump"), Placeholder(Len(s.instructions), "Jump"))

\* let jump = push_placeholder(Jump)?; then jump.jump_back_to_index(to_index)
PushJumpBack(s, to_index) ==
    JumpBackToIndex(PushPlaceholder(s, "Jump"), Placeholder(Len(s.instructions), "Jump"),
                    to_index)

\* a break or continue outside a loop that emits a jump and goes on
JumpWithoutTarget(s) == Push(s, Jump("Forward", 0))

\* self.current_jump_target().ok_or(Error::NoLoopToExit)? on None
CurrentJumpTargetMissing(s) == Fail(s, "NoLoopToExit")

\* InstructionCompiler::visit_jump
VisitJump(s, stmt) ==
    CASE stmt.jump = "Return" -> Push(VisitOptional(s, stmt.expr), Return)
      [] stmt.jump = "Break" ->
            IF s.jump_targets = <<>> THEN JumpEvent(s, CurrentJumpTargetMissing(s), "break")
            ELSE LET depth == s.jump_targets[Len(s.jump_targets)].depth
                 IN JumpEvent(s,
                        ThenApplyStackEffect(
                            PushEndJumpPlaceholder(
                                Push(VisitOptional(s, stmt.expr), PopScope(depth))),
                            -1),
                        "break")
      [] stmt.jump = "Continue" ->
            IF s.jump_targets = <<>> THEN JumpEvent(s, CurrentJumpTargetMissing(s), "continue")
            ELSE LET jump_target == s.jump_targets[Len(s.jump_targets)]
                 IN JumpEvent(s,
                        PushJumpBack(
                            Push(Push(Push(s, InlineUnit), PopScope(jump_target.depth)),
                                 Pop),
                            jump_target.start),
                        "continue")

\* InstructionCompiler::visit_variable_declaration
VisitVariableDeclaration(s, stmt) ==
    LET Declare(s1) ==
            IF ~IsOk(s1) THEN s1
            ELSE IF s1.stack = <<>> THEN Fail(s1, "panic: unwrap")
            ELSE [s1 EXCEPT !.stack[Len(s1.stack)] = stmt.variable]
    IN Declare(VisitOptional(s, stmt.initializer))

\* InstructionCompiler::visit_assignment
VisitAssignment(s, stmt) ==
    IF stmt.left.t # "Identifier" THEN Fail(s, "InvalidAssignmentTarget")
    ELSE LET Store(s1) == IF IsOk(s1) THEN StoreTo(s1, stmt.left.name) ELSE s1
         IN Store(Visit(s, "expression", stmt.right))

\* InstructionCompiler::visit_statement
VisitStatement(s, stmt) ==
    IF ~IsOk(s) THEN s
    ELSE CASE stmt.t = "Declaration" -> Fail(s, "panic: todo")
           [] stmt.t = "Expression" -> Push(Visit(s, "expression", stmt.expr), Pop)
           [] stmt.t = "Jump" -> VisitJump(s, stmt)
           [] stmt.t = "VariableDeclaration" -> VisitVariableDeclaration(s, stmt)
           [] stmt.t = "Assignment" -> VisitAssignment(s, stmt)

\* the loop over block.statements in visit_block, for the statements
\* lo..hi in order (first one half, then the other)
VisitStatements(s, statements, lo, hi) ==
    IF ~IsOk(s) \/ lo > hi THEN s
    ELSE IF lo = hi THEN Visit(s, "statement", statements[lo])
    ELSE VisitStatements(VisitStatements(s, statements, lo, (lo + hi) \div 2),
                         statements, (lo + hi) \div 2 + 1, hi)

\* InstructionCompiler::visit_block
VisitBlock(s, block) ==
    IF ~IsOk(s) THEN s
    ELSE LET depth == Len(s.stack)
             locals == Cardinality({i \in 1..Len(block.statements) :
                            block.statements[i].t = "VariableDeclaration"})
             \* the event logged is the virtual stack the assertions look at
             Log(s1) ==
                 WithCompiler(s1, Logged(s1.compiler,
                     [what |-> "block", name |-> <<>>, stack |-> s1.stack,
                      targets |-> Len(s1.jump_targets), emitted |-> <<>>, err |-> "",
                      depth |-> depth, locals |-> locals]))
             Asserted(s1) ==
                 IF \/ Len(s1.stack) # depth + locals + 1
                    \/ \E i \in (depth + 1)..(depth + locals) : ~s1.stack[i].named
                    \/ s1.stack[depth + locals + 1].named
                 THEN Fail(s1, "panic: assert")
                 ELSE Push(s1, PopScope(depth))
             Close(s1) == IF ~IsOk(s1) THEN s1 ELSE Asserted(Log(s1))
         IN Close(VisitOptional(VisitStatements(s, block.statements, 1,
                                                Len(block.statements)),
                                block.expression))

\* the loop over expr.then_branches in visit_if; the result is the compiler
\* state together with the end_jumps collected, and as history the places
\* of the cond placeholders
VisitThenBranches(s, then_branches, i, end_jumps) ==
    IF ~IsOk(s) \/ i > Len(then_branches)
    THEN [s |-> s, end_jumps |-> end_jumps, conds |-> <<>>]
    ELSE LET condition == then_branches[i][1]
             then_branch == then_branches[i][2]
             \* assert_eq!(self.stack.len(), depth + 1); apply_stack_effect(-1)
             Leave(s5, depth) ==
                 IF ~IsOk(s5) THEN s5
                 ELSE IF Len(s5.stack) # depth + 1 THEN Fail(s5, "panic: assert")
                 ELSE ApplyStackEffect(s5, -1)
             \* from the end of the then branch (s3) to the next branch
             Rest(cond, rest) == [rest EXCEPT !.conds = <<cond.index>> \o @]
             Else(s3, cond, depth) ==
                 Rest(cond, VisitThenBranches(
                     Leave(JumpFwdToCurrent(PushPlaceholder(s3, "Jump"), cond), depth),
                     then_branches, i + 1,
                     Append(end_jumps, Placeholder(Len(s3.instructions), "Jump"))))
             \* from the negated condition (s1) to the end of the then branch
             Then(s1, s2) ==
                 Else(Visit(s2, "block", then_branch),
                      Placeholder(Len(s1.instructions), "JumpIf"), Len(s2.stack))
             If(s1) == Then(s1, PushPlaceholder(s1, "JumpIf"))
         IN If(Push(Visit(s, "expression", condition), Unary("Not")))

\* InstructionCompiler::visit_if; the event logged is where the chain lies
\* in the instructions of the function
VisitIf(s, expr) ==
    LET else_branch == IF IsSome(expr.else_branch)
                       THEN Some(ExprBlock(Unwrap(expr.else_branch)))
                       ELSE None
        Log(branches, s1) ==
            IF ~IsOk(s1) THEN s1
            ELSE WithCompiler(s1, Logged(s1.compiler,
                     [what |-> "if", name |-> <<>>, stack |-> s.stack,
                      targets |-> Len(s.jump_targets), emitted |-> <<>>, err |-> "",
                      depth |-> Len(s.stack), after |-> s1.stack, fn |-> s.id,
                      start |-> Len(s.instructions), end |-> Len(s1.instructions),
                      conds |-> branches.conds,
                      ends |-> [k \in 1..Len(branches.end_jumps) |->
                                   branches.end_jumps[k].index],
                      else |-> IsSome(expr.else_branch)]))
        Else(branches) ==
            Log(branches,
                FillEndJumps(IF IsOk(branches.s)
                             THEN VisitOptional(branches.s, else_branch)
                             ELSE branches.s,
                             branches.end_jumps, 1))
    IN Else(VisitThenBranches(s, expr.then_branches, 1, <<>>))

\* InstructionCompiler::visit_loop; the event logged is where the loop
\* lies in the instructions of the function
VisitLoop(s, expr) ==
    LET start == Len(s.instructions)
        Log(s1) ==
            IF ~IsOk(s1) THEN s1
            ELSE WithCompiler(s1, Logged(s1.compiler,
                     [what |-> "loop", name |-> <<>>, stack |-> s.stack,
                      targets |-> Len(s.jump_targets) + 1, emitted |-> <<>>, err |-> "",
                      depth |-> Len(s.stack), after |-> s1.stack, fn |-> s.id,
                      start |-> start, close |-> Len(s1.instructions) - 1]))
    IN Log(ThenApplyStackEffect(
               PopJumpTarget(
                   PushJumpBack(Push(Visit(PushJumpTarget(s), "block", expr.body), Pop),
                                start)),
               1))

\* a context for a function that starts inside a loop
FnTrunkContextInLoop(c, trunk) ==
    [NewInstructionCompiler(c) EXCEPT !.stack = trunk.formal_parameters,
                                      !.jump_targets = <<JumpTarget(0, 0)>>]

\* InstructionCompiler::new(c) and the head of visit_fn_trunk:
\* self.stack.extend(formal_parameters)
FnTrunkContext(c, trunk) ==
    [NewInstructionCompiler(c) EXCEPT !.stack = trunk.formal_parameters]

\* InstructionCompiler::visit_fn_trunk on a fresh InstructionCompiler::new(c):
\* the compiler afterwards, the Result, and history (vdepth)
VisitFnTrunk(c, trunk) ==
    LET s0 == FnTrunkContext(c, trunk)
        \* the event logged is what became of the placeholders of the body
        Log(s1) ==
            WithCompiler(s1, Logged(s1.compiler,
                [what |-> "function", name |-> <<>>, stack |-> s1.stack,
                 targets |-> Len(s1.jump_targets), emitted |-> <<>>, err |-> s1.err,
                 placed |-> s1.placed, filled |-> s1.filled, fn |-> s1.id,
                 code |-> s1.instructions, entry |-> s0.stack,
                 entry_targets |-> Len(s0.jump_targets),
                 left |-> {i \in 1..Len(s1.instructions) : ~IsReal(s1.instructions[i])},
                 returned |-> IsOk(s1) /\ \A i \in 1..Len(s1.instructions) :
                                               IsReal(s1.instructions[i])]))
        Result(s1) ==
            [compiler |-> s1.compiler,
             err |-> IF ~IsOk(s1) THEN s1.err
                     ELSE IF \E i \in 1..Len(s1.instructions) :
                                ~IsReal(s1.instructions[i])
                          THEN "InvalidBytecode"
                          ELSE "",
             function |-> FunctionConstant(Len(trunk.formal_parameters),
                                           s1.instructions),
             vdepth |-> s1.vdepth]
    IN Result(Log(Visit(s0, "block", trunk.body)))

\* history: the virtual stack lengths of a function constant, kept beside it
WithDepths(c, index, vdepth) ==
    IF c.fn_vdepth[index + 1] = <<>> THEN [c EXCEPT !.fn_vdepth[index + 1] = vdepth]
    ELSE c

\* InstructionCompiler::visit_fn; the event logged is what the expression
\* did to the function around it
VisitFnExpr(s, expr) ==
    LET PushFunction(r, index) ==
            IF r.err # "" THEN Fail(WithCompiler(s, r.compiler), r.err)
            ELSE Push(WithCompiler(s, WithDepths(AddConstant(r.compiler, r.function),
                                               index, r.vdepth)),
                      Constant(index))
        Log(s1) ==
            WithCompiler(s1, Logged(s1.compiler,
                [what |-> "fn", name |-> <<>>, stack |-> s.stack,
                 targets |-> Len(s.jump_targets),
                 emitted |-> SubSeq(s1.instructions, Len(s.instructions) + 1,
                                    Len(s1.instructions)),
                 err |-> s1.err, after |-> s1.stack, fn |-> s.id,
                 inner |-> Len(s.compiler.log) + 1,
                 parameters |-> expr.trunk.formal_parameters,
                 targets_after |-> s1.jump_targets = s.jump_targets]))
        Add(r) == Log(PushFunction(r, AddConstantIndex(r.compiler, r.function)))
    IN Add(VisitFnTrunk(s.compiler, expr.trunk))

\* InstructionCompiler::visit_expression
VisitExpression(s, expr) ==
    IF ~IsOk(s) THEN s
    ELSE CASE expr.t = "Number" -> VisitNumber(s, expr.literal)
           [] expr.t = "Bool" -> VisitBool(s, expr.value)
           [] expr.t = "String" -> VisitString(s, expr.literal)
           [] expr.t = "Identifier" -> VisitIdentifier(s, expr.name)
           [] expr.t = "Binary" -> VisitBinary(s, expr)
           [] expr.t = "Unary" -> VisitUnary(s, expr)
           [] expr.t = "Call" -> VisitCall(s, expr)
           [] expr.t = "Block" -> Visit(s, "block", expr.block)
           [] expr.t = "Fn" -> VisitFnExpr(s, expr)
           [] expr.t = "If" -> VisitIf(s, expr)
           [] expr.t = "Loop" -> VisitLoop(s, expr)

\* the visit_* methods call each other; every such call goes through here:
\* what names the method (visit_expression, visit_statement, visit_block)
Visit(s, what, node) ==
    CASE what = "expression" -> VisitExpression(s, node)
      [] what = "statement" -> VisitStatement(s, node)
      [] what = "block" -> VisitBlock(s, node)

----------------------------------------------------------------------------
(* Compiler: declarations *)

\* Compiler::visit_fn: the compiler afterwards and the Result
VisitFn(c, decl) ==
    LET Add(r) ==
            IF r.err # "" THEN [compiler |-> r.compiler, err |-> r.err]
            ELSE [compiler |->
                     WithDepths(AddGlobal(r.compiler, decl.name, r.function),
                                AddConstantIndex(
                                    AddConstant(r.compiler, StringConstant(decl.name)),
                                    r.function),
                                r.vdepth),
                  err |-> ""]
    IN Add(VisitFnTrunk(c, decl.trunk))

\* the fold over fields in visit_struct_type, Named case
RECURSIVE AddFieldConstants(_, _, _, _)
AddFieldConstants(c, fields, i, indices) ==
    IF i > Len(fields) THEN [compiler |-> c, fields |-> indices]
    ELSE AddFieldConstants(AddConstant(c, StringConstant(fields[i])), fields, i + 1,
            Append(indices, AddConstantIndex(c, StringConstant(fields[i]))))

\* StructType::{Empty, Positional(n), Named(fields)}
StructType(kind, count, fields) == [kind |-> kind, count |-> count, fields |-> fields]

\* Compiler::visit_struct_type
VisitStructType(c, decl) ==
    LET name == AddConstantIndex(c, StringConstant(decl.name))
        c1 == AddConstant(c, StringConstant(decl.name))
        named == AddFieldConstants(c1, decl.fields, 1, <<>>)
        c2 == IF decl.kind = "Named" THEN named.compiler ELSE c1
        struct_type ==
            CASE decl.kind = "Empty" -> StructType("Empty", 0, <<>>)
              [] decl.kind = "Positional" -> StructType("Positional", Len(decl.fields), <<>>)
              [] decl.kind = "Named" -> StructType("Named", 0, named.fields)
    IN [compiler |-> [c2 EXCEPT !.struct_types = MapInsert(@, name, struct_type)],
        err |-> ""]

\* visit_declaration that skips a use declaration instead of failing
VisitDeclarationSkippingUse(c, declaration) ==
    CASE declaration.t = "Use" -> [compiler |-> c, err |-> ""]
      [] declaration.t = "Fn" -> VisitFn(c, declaration)
      [] declaration.t = "Struct" -> VisitStructType(c, declaration)
      [] declaration.t = "Mixin" -> [compiler |-> c, err |-> "Unsupported"]
      [] declaration.t = "Impl" -> [compiler |-> c, err |-> "Unsupported"]

\* Compiler::visit_declaration
VisitDeclarationResult(c, declaration) ==
    CASE declaration.t = "Use" -> [compiler |-> c, err |-> "Unsupported"]
      [] declaration.t = "Fn" -> VisitFn(c, declaration)
      [] declaration.t = "Struct" -> VisitStructType(c, declaration)
      [] declaration.t = "Mixin" -> [compiler |-> c, err |-> "Unsupported"]
      [] declaration.t = "Impl" -> [compiler |-> c, err |-> "Unsupported"]

----------------------------------------------------------------------------
(* Compiler: write_bytecode *)

\* ConstantKind and StructTypeKind, #[repr(u8)]
ConstantKinds == <<"Number", "String", "Function">>
StructTypeKinds == <<"Empty", "Positional", "Named">>

Magic == <<115, 112, 114, 97, 99, 104, 108, 105>>

\* the keys of a BTreeMap<usize, _> in iteration order
RECURSIVE SortedKeys(_)
SortedKeys(keys) ==
    IF keys = {} THEN <<>>
    ELSE LET least == CHOOSE k \in keys : \A other \in keys : k <= other
         IN <<least>> \o SortedKeys(keys \ {least})

\* the opcode the writer selects for an instruction of the compiler
WriterOpcode(ins) ==
    CASE ins.op = "InlineConstant" -> ins.sub
      [] ins.op = "Jump" -> IF ins.sub = "Forward" THEN "JumpForward" ELSE "JumpBackward"
      [] ins.op = "JumpIf" ->
            IF ins.sub = "Forward" THEN "JumpForwardIf" ELSE "JumpBackwardIf"
      [] OTHER -> ins.op

\* one arm of the match in writer::function: push_opcode / push_opcode_u8
WriteInstruction(ins) ==
    CASE ins.op \in {"InlineConstant", "Pop", "Return"} -> <<OpcodeByte(WriterOpcode(ins))>>
      [] ins.op = "Unary" ->
            <<OpcodeByte("Unary"), Discriminant(UnaryOperators, ins.sub)>>
      [] ins.op = "Binary" ->
            <<OpcodeByte("Binary"), Discriminant(BinaryOperators, ins.sub)>>
      [] OTHER -> <<OpcodeByte(WriterOpcode(ins)), AsU8(ins.arg)>>

\* the loop over value.body() in writer::function
WriteBody(body) == Concat([j \in 1..Len(body) |-> WriteInstruction(body[j])])

\* writer::number
WriteNumber(value) ==
    LET text == NumberToString(value)
    IN <<Discriminant(ConstantKinds, "Number")>> \o U16Be(Len(text)) \o text

\* writer::string
WriteString(value) ==
    <<Discriminant(ConstantKinds, "String")>> \o U16Be(Len(value)) \o value

\* writer::function
WriteFunction(value) ==
    LET body == WriteBody(value.body)
    IN <<Discriminant(ConstantKinds, "Function")>> \o U16Be(value.arity)
           \o U16Be(Len(body)) \o body

\* writer::constant
WriteConstant(value) ==
    CASE value.k = "Number" -> WriteNumber(value.n)
      [] value.k = "String" -> WriteString(value.s)
      [] value.k = "Function" -> WriteFunction(value)

\* writer::constants
WriteConstants(constants) ==
    U16Be(Len(constants))
        \o Concat([i \in 1..Len(constants) |-> WriteConstant(constants[i])])

\* writer::globals
WriteGlobals(globals) ==
    LET keys == SortedKeys(DOMAIN globals)
    IN U16Be(Len(keys))
           \o Concat([i \in 1..Len(keys) |-> U16Be(keys[i]) \o U16Be(globals[keys[i]])])

\* writer::struct_type
WriteStructType(name, decl) ==
    U16Be(name) \o
    CASE decl.kind = "Empty" -> <<Discriminant(StructTypeKinds, "Empty")>>
      [] decl.kind = "Positional" ->
            <<Discriminant(StructTypeKinds, "Positional")>> \o U16Be(decl.count)
      [] decl.kind = "Named" ->
            <<Discriminant(StructTypeKinds, "Named")>> \o U16Be(Len(decl.fields))
                \o Concat([i \in 1..Len(decl.fields) |-> U16Be(decl.fields[i])])

\* writer::struct_types
WriteStructTypes(structs) ==
    LET keys == SortedKeys(DOMAIN structs)
    IN U16Be(Len(keys))
           \o Concat([i \in 1..Len(keys) |-> WriteStructType(keys[i], structs[keys[i]])])

\* writer::header
WriteHeader == Magic \o U16Be(0)

\* write_bytecode on the compiler's Module (constants, globals, struct_types)
WriteBytecode(c) ==
    WriteHeader \o WriteConstants(c.constants) \o WriteGlobals(c.globals)
        \o WriteStructTypes(c.struct_types)

----------------------------------------------------------------------------
(* sprachli_bytecode: parse_bytecode *)

\* A parser result: err is "" for Ok; i is the number of bytes consumed so
\* far (the rest of the input is bytes[i + 1 ..]); v is the value parsed.
Parsed(i, v) == [err |-> "", i |-> i, v |-> v]
ParseError(e) == [err |-> e, i |-> 0, v |-> <<>>]

\* nom be_u8, be_u16, take(n), tag
BeU8(bytes, i) ==
    IF i + 1 > Len(bytes) THEN ParseError("Nom") ELSE Parsed(i + 1, bytes[i + 1])
BeU16(bytes, i) ==
    IF i + 2 > Len(bytes) THEN ParseError("Nom")
    ELSE Parsed(i + 2, bytes[i + 1] * 256 + bytes[i + 2])
Take(bytes, i, n) ==
    IF i + n > Len(bytes) THEN ParseError("Nom") ELSE Parsed(i + n, Slice(bytes, i, i + n))
Tag(bytes, i, tag) ==
    IF i + Len(tag) <= Len(bytes) /\ Slice(bytes, i, i + Len(tag)) = tag
    THEN Parsed(i + Len(tag), tag)
    ELSE ParseError("Nom")

\* parser::header
ParseHeader(bytes, i) ==
    LET magic == Tag(bytes, i, Magic)
    IN IF magic.err # "" THEN magic ELSE BeU16(bytes, magic.i)

\* std::str::from_utf8 on the strings of the model, which are ASCII
IsUtf8(bytes) == \A j \in 1..Len(bytes) : bytes[j] < 128

\* parser::number
ParseNumberConstant(bytes, i) ==
    LET len == BeU16(bytes, i)
        text == Take(bytes, len.i, len.v)
    IN IF len.err # "" THEN len
       ELSE IF text.err # "" THEN text
       ELSE IF ~IsSome(ParseNumber(text.v)) THEN ParseError("InvalidNumberConstant")
       ELSE Parsed(text.i, NumberConstant(Unwrap(ParseNumber(text.v))))

\* parser::string
ParseStringConstant(bytes, i) ==
    LET len == BeU16(bytes, i)
        text == Take(bytes, len.i, len.v)
    IN IF len.err # "" THEN len
       ELSE IF text.err # "" THEN text
       ELSE IF ~IsUtf8(text.v) THEN ParseError("InvalidStringConstant")
       ELSE Parsed(text.i, StringConstant(text.v))

\* parser::function: the body is kept as bytes (InstructionSequence)
ParseFunctionConstant(bytes, i) ==
    LET arity == BeU16(bytes, i)
        len == BeU16(bytes, arity.i)
        body == Take(bytes, len.i, len.v)
    IN IF arity.err # "" THEN arity
       ELSE IF len.err # "" THEN len
       ELSE IF body.err # "" THEN body
       ELSE Parsed(body.i, FunctionConstant(arity.v, body.v))

\* parser::constant
ParseConstant(bytes, i) ==
    LET t == BeU8(bytes, i)
    IN IF t.err # "" THEN t
       ELSE IF t.v >= Len(ConstantKinds) THEN ParseError("InvalidConstantKind")
       ELSE CASE ConstantKinds[t.v + 1] = "Number" -> ParseNumberConstant(bytes, t.i)
              [] ConstantKinds[t.v + 1] = "String" -> ParseStringConstant(bytes, t.i)
              [] ConstantKinds[t.v + 1] = "Function" -> ParseFunctionConstant(bytes, t.i)

\* nom count(parser, n): parser(bytes, i) applied n times, results collected
RECURSIVE ParseConstantList(_, _, _, _)
ParseConstantList(bytes, i, n, acc) ==
    IF n = 0 THEN Parsed(i, acc)
    ELSE LET Rest(one) ==
                 IF one.err # "" THEN one
                 ELSE ParseConstantList(bytes, one.i, n - 1, Append(acc, one.v))
         IN Rest(ParseConstant(bytes, i))

\* parser::constants
ParseConstants(bytes, i) ==
    LET len == BeU16(bytes, i)
    IN IF len.err # "" THEN len ELSE ParseConstantList(bytes, len.i, len.v, <<>>)

\* parser::get_constant and parser::get_string_constant: "" when Ok
GetStringConstantError(constants, index) ==
    IF index >= Len(constants) THEN "InvalidConstantRef"
    ELSE IF constants[index + 1].k # "String" THEN "InvalidConstantRefType"
    ELSE ""

\* parser::global
ParseGlobal(bytes, i, constants) ==
    LET name == BeU16(bytes, i)
        value == BeU16(bytes, name.i)
    IN IF name.err # "" THEN name
       ELSE IF value.err # "" THEN value
       ELSE IF GetStringConstantError(constants, name.v) # ""
            THEN ParseError(GetStringConstantError(constants, name.v))
       ELSE Parsed(value.i, <<constants[name.v + 1].s, value.v>>)

\* parser::globals: count(global, len) collected with BTreeMap::from_iter
RECURSIVE ParseGlobalList(_, _, _, _, _)
ParseGlobalList(bytes, i, n, constants, acc) ==
    IF n = 0 THEN Parsed(i, acc)
    ELSE LET Rest(one) ==
                 IF one.err # "" THEN one
                 ELSE ParseGlobalList(bytes, one.i, n - 1, constants,
                                      MapInsert(acc, one.v[1], one.v[2]))
         IN Rest(ParseGlobal(bytes, i, constants))

ParseGlobals(bytes, i, constants) ==
    LET len == BeU16(bytes, i)
    IN IF len.err # "" THEN len
       ELSE ParseGlobalList(bytes, len.i, len.v, constants, EmptyMap)

\* the closure of the Named arm of parser::struct_type, count(.., len)
RECURSIVE ParseFieldList(_, _, _, _, _)
ParseFieldList(bytes, i, n, constants, acc) ==
    IF n = 0 THEN Parsed(i, acc)
    ELSE LET field == BeU16(bytes, i)
         IN IF field.err # "" THEN field
            ELSE IF GetStringConstantError(constants, field.v) # ""
                 THEN ParseError(GetStringConstantError(constants, field.v))
            ELSE ParseFieldList(bytes, field.i, n - 1, constants,
                                Append(acc, constants[field.v + 1].s))

\* parser::struct_type
ParseStructType(bytes, i, constants) ==
    LET name == BeU16(bytes, i)
        t == BeU8(bytes, name.i)
        count == BeU16(bytes, t.i)
        fields == ParseFieldList(bytes, count.i, count.v, constants, <<>>)
    IN IF name.err # "" THEN name
       ELSE IF GetStringConstantError(constants, name.v) # ""
            THEN ParseError(GetStringConstantError(constants, name.v))
       ELSE IF t.err # "" THEN t
       ELSE IF t.v >= Len(StructTypeKinds) THEN ParseError("InvalidStructTypeKind")
       ELSE LET key == constants[name.v + 1].s IN
            CASE StructTypeKinds[t.v + 1] = "Empty" ->
                    Parsed(t.i, <<key, StructType("Empty", 0, <<>>)>>)
              [] StructTypeKinds[t.v + 1] = "Positional" ->
                    IF count.err # "" THEN count
                    ELSE Parsed(count.i, <<key, StructType("Positional", count.v, <<>>)>>)
              [] StructTypeKinds[t.v + 1] = "Named" ->
                    IF count.err # "" THEN count
                    ELSE IF fields.err # "" THEN fields
                    ELSE Parsed(fields.i, <<key, StructType("Named", 0, fields.v)>>)

\* parser::struct_types
RECURSIVE ParseStructTypeList(_, _, _, _, _)
ParseStructTypeList(bytes, i, n, constants, acc) ==
    IF n = 0 THEN Parsed(i, acc)
    ELSE LET Rest(one) ==
                 IF one.err # "" THEN one
                 ELSE ParseStructTypeList(bytes, one.i, n - 1, constants,
                                          MapInsert(acc, one.v[1], one.v[2]))
         IN Rest(ParseStructType(bytes, i, constants))

ParseStructTypes(bytes, i, constants) ==
    LET len == BeU16(bytes, i)
    IN IF len.err # "" THEN len
       ELSE ParseStructTypeList(bytes, len.i, len.v, constants, EmptyMap)

\* sprachli_bytecode::Module::new
Module(constants, globals, structs) ==
    [constants |-> constants, globals |-> globals, structs |-> structs]

\* parser::bytecode and parse_bytecode: [err, module]
ParseFailed(e) == [err |-> e, module |-> Module(<<>>, EmptyMap, EmptyMap)]

\* the end of parser::bytecode: Module::new of the three tables
ParsedModule(constants, globals, struct_types) ==
    IF struct_types.err # "" THEN ParseFailed(struct_types.err)
    ELSE [err |-> "", module |-> Module(constants.v, globals.v, struct_types.v)]

\* parser::bytecode from struct_types(&constants) on
ParseAfterGlobals(bytes, constants, globals) ==
    IF globals.err # "" THEN ParseFailed(globals.err)
    ELSE ParsedModule(constants, globals,
                      ParseStructTypes(bytes, globals.i, constants.v))

\* parser::bytecode from globals(&constants) on
ParseAfterConstants(bytes, constants) ==
    IF constants.err # "" THEN ParseFailed(constants.err)
    ELSE ParseAfterGlobals(bytes, constants,
                           ParseGlobals(bytes, constants.i, constants.v))

\* parser::bytecode from constants on
ParseAfterHeader(bytes, version) ==
    IF version.err # "" THEN ParseFailed(version.err)
    ELSE ParseAfterConstants(bytes, ParseConstants(bytes, version.i))

ParseBytecode(bytes) == ParseAfterHeader(bytes, ParseHeader(bytes, 0))

----------------------------------------------------------------------------
(* sprachli_bytecode: InstructionIter *)

OpcodesWithoutParameter == {"Unit", "True", "False", "Pop", "Return"}

\* the Instruction an opcode and its parameter byte decode to; None when
\* the parameter is not a valid operator (Error::InvalidInstruction)
DecodedInstruction(opcode, parameter) ==
    CASE opcode \in {"Unit", "True", "False"} -> Some(Ins("InlineConstant", 0, opcode))
      [] opcode \in {"Pop", "Return"} -> Some(Ins(opcode, 0, ""))
      [] opcode = "Unary" ->
            IF parameter < Len(UnaryOperators)
            THEN Some(Unary(UnaryOperators[parameter + 1])) ELSE None
      [] opcode = "Binary" ->
            IF parameter < Len(BinaryOperators)
            THEN Some(Binary(BinaryOperators[parameter + 1])) ELSE None
      [] opcode = "JumpForward" -> Some(Jump("Forward", parameter))
      [] opcode = "JumpBackward" -> Some(Jump("Backward", parameter))
      [] opcode = "JumpForwardIf" -> Some(JumpIf("Forward", parameter))
      [] opcode = "JumpBackwardIf" -> Some(JumpIf("Backward", parameter))
      [] OTHER -> Some(Ins(opcode, parameter, ""))

\* next() that takes a body ending inside an instruction for the end of the
\* body
IterNextEndsQuietly(bytes, offset) ==
    IF offset >= Len(bytes)
    THEN [some |-> FALSE, err |-> "", ins |-> Pop, offset |-> offset]
    ELSE LET byte == bytes[offset + 1] IN
         IF byte >= Len(Opcodes)
         THEN [some |-> TRUE, err |-> "InvalidOpcode", ins |-> Pop, offset |-> offset + 1]
         ELSE LET opcode == Opcodes[byte + 1] IN
              IF opcode \in OpcodesWithoutParameter
              THEN [some |-> TRUE, err |-> "",
                    ins |-> Unwrap(DecodedInstruction(opcode, 0)), offset |-> offset + 1]
              ELSE IF offset + 1 >= Len(bytes)
              THEN [some |-> FALSE, err |-> "", ins |-> Pop, offset |-> offset + 1]
              ELSE LET ins == DecodedInstruction(opcode, bytes[offset + 2]) IN
                   IF IsSome(ins)
                   THEN [some |-> TRUE, err |-> "", ins |-> Unwrap(ins),
                         offset |-> offset + 2]
                   ELSE [some |-> TRUE, err |-> "InvalidInstruction", ins |-> Pop,
                         offset |-> offset + 2]

\* Iterator::next of InstructionIter at byte `offset` of `bytes`:
\* some = FALSE is None; otherwise err is "" for Some(Ok(ins)); offset is
\* the iterator's offset afterwards
IterNext(bytes, offset) ==
    IF offset >= Len(bytes)
    THEN [some |-> FALSE, err |-> "", ins |-> Pop, offset |-> offset]
    ELSE LET byte == bytes[offset + 1] IN
         IF byte >= Len(Opcodes)
         THEN [some |-> TRUE, err |-> "InvalidOpcode", ins |-> Pop, offset |-> offset + 1]
         ELSE LET opcode == Opcodes[byte + 1] IN
              IF opcode \in OpcodesWithoutParameter
              THEN [some |-> TRUE, err |-> "",
                    ins |-> Unwrap(DecodedInstruction(opcode, 0)), offset |-> offset + 1]
              ELSE IF offset + 1 >= Len(bytes)
              THEN [some |-> TRUE, err |-> "IncompleteInstruction", ins |-> Pop,
                    offset |-> offset + 1]
              ELSE LET ins == DecodedInstruction(opcode, bytes[offset + 2]) IN
                   IF IsSome(ins)
                   THEN [some |-> TRUE, err |-> "", ins |-> Unwrap(ins),
                         offset |-> offset + 2]
                   ELSE [some |-> TRUE, err |-> "InvalidInstruction", ins |-> Pop,
                         offset |-> offset + 2]

\* InstructionIter::jump: the new offset, or None where the subtraction or
\* the slice [offset..] panics
IterJump(bytes, offset, ins) ==
    LET target == IF ins.sub = "Forward" THEN offset + ins.arg ELSE offset - ins.arg
    IN IF target < 0 \/ target > Len(bytes) THEN None ELSE Some(target)

\* a walk of an InstructionIter over `bytes`: the offset, the instructions
\* yielded so far, the first Err, and whether next() returned None or Err
DecodeStep(bytes, d) ==
    LET item == IterNext(bytes, d.offset)
    IN IF d.done THEN d
       ELSE IF ~item.some THEN [d EXCEPT !.done = TRUE]
       ELSE IF item.err # "" THEN [d EXCEPT !.done = TRUE, !.err = item.err]
       ELSE [d EXCEPT !.offset = item.offset, !.body = Append(@, item.ins)]

\* `steps` calls of next(), taken by halves
RECURSIVE DecodeSteps(_, _, _)
DecodeSteps(bytes, d, steps) ==
    IF steps <= 0 THEN d
    ELSE IF steps = 1 THEN DecodeStep(bytes, d)
    ELSE LET half == DecodeSteps(bytes, d, steps \div 2)
         IN IF half.done THEN half
            ELSE DecodeSteps(bytes, half, steps - steps \div 2)

\* the whole of an InstructionSequence through iter(): the instructions up
\* to the end or to the first Err; every next() consumes a byte, so
\* Len(bytes) + 1 calls reach the end
DecodeAll(bytes) ==
    DecodeSteps(bytes, [offset |-> 0, body |-> <<>>, err |-> "", done |-> FALSE],
                Len(bytes) + 1)

----------------------------------------------------------------------------
(* VM: values and the stack *)

Value(k, b, n, s, f) == [k |-> k, b |-> b, n |-> n, s |-> s, f |-> f]
ValueUnit == Value("Unit", FALSE, 0, <<>>, 0)
ValueBool(b) == Value("Bool", b, 0, <<>>, 0)
ValueNumber(n) == Value("Number", FALSE, n, <<>>, 0)
ValueString(s) == Value("String", FALSE, 0, s, 0)
\* a function value refers to the Function constant of the module
ValueFunction(index) == Value("Function", FALSE, 0, <<>>, index)

\* Value::constant of the constant at `index` of the module
ValueConstant(constants, index) ==
    LET constant == constants[index + 1] IN
    CASE constant.k = "Number" -> ValueNumber(constant.n)
      [] constant.k = "String" -> ValueString(constant.s)
      [] constant.k = "Function" -> ValueFunction(index)

\* results of stack operations: err is "" for Ok
StackOk(st, v) == [err |-> "", stack |-> st, v |-> v]
StackErr(st, e) == [err |-> e, stack |-> st, v |-> ValueUnit]

\* Stack::pop
StackPop(st) ==
    IF st = <<>> THEN StackErr(st, "EmptyStack")
    ELSE StackOk(SubSeq(st, 1, Len(st) - 1), st[Len(st)])

\* Stack::pop_deep
PopDeep(st, index) ==
    IF index >= Len(st) THEN StackErr(st, "EmptyStack")
    ELSE StackOk(Slice(st, 0, index) \o Slice(st, index + 1, Len(st)), st[index + 1])

\* Stack::pop_multiple: vs are the values drained, the deepest first
PopMultiple(st, count) ==
    IF count > Len(st) THEN [err |-> "EmptyStack", stack |-> st, vs |-> <<>>]
    ELSE [err |-> "", stack |-> Slice(st, 0, Len(st) - count),
          vs |-> Slice(st, Len(st) - count, Len(st))]

\* pop_all_under that drains index.. with the top value
PopAllUnderWithTop(st, index) ==
    IF index >= Len(st) THEN StackErr(st, "EmptyStack")
    ELSE StackOk(Slice(st, 0, index), ValueUnit)

\* Stack::pop_all_under
PopAllUnder(st, index) ==
    IF index >= Len(st) THEN StackErr(st, "EmptyStack")
    ELSE StackOk(Slice(st, 0, index) \o <<st[Len(st)]>>, ValueUnit)

----------------------------------------------------------------------------
(* VM: operators *)

\* results of operators: err is "" for Ok
ValueOk(v) == [err |-> "", v |-> v]
ValueErr(e) == [err |-> e, v |-> ValueUnit]

Abs(n) == IF n < 0 THEN 0 - n ELSE n

RECURSIVE Pow2(_)
Pow2(n) == IF n <= 0 THEN 1 ELSE 2 * Pow2(n - 1)

\* BigInt &, ^, | : two's complement with infinite sign extension; bit(x, y)
\* is the operation on single bits
RECURSIVE Bitwise(_, _, _)
Bitwise(operator, a, b) ==
    LET bit(x, y) == CASE operator = "BitAnd" -> x * y
                       [] operator = "BitXor" -> (x + y) % 2
                       [] operator = "BitOr" -> x + y - x * y
    IN IF a \in {0, -1} /\ b \in {0, -1}
       THEN 0 - bit(0 - a, 0 - b)
       ELSE 2 * Bitwise(operator, a \div 2, b \div 2) + bit(a % 2, b % 2)

\* Vm::unary on the popped operand
UnaryResult(operator, right) ==
    CASE operator = "Negate" ->
            IF right.k = "Number" THEN ValueOk(ValueNumber(0 - right.n))
            ELSE ValueErr("TypeError")
      [] operator = "Not" ->
            IF right.k = "Bool" THEN ValueOk(ValueBool(~right.b))
            ELSE ValueErr("TypeError")

\* an equality that looks at the kinds of the values only
ValuesEqualByKind(left, right) ==
    left.k = right.k

\* the closure equality_comparison of Vm::binary
ValuesEqual(left, right) ==
    CASE left.k = "Unit" /\ right.k = "Unit" -> TRUE
      [] left.k = "Bool" /\ right.k = "Bool" -> left.b = right.b
      [] left.k = "Number" /\ right.k = "Number" -> left.n = right.n
      [] left.k = "String" /\ right.k = "String" -> left.s = right.s
      [] left.k = "Function" /\ right.k = "Function" -> left.f = right.f
      [] OTHER -> FALSE

\* Vm::binary on the two popped operands; the numbers of the model are
\* integers, so a division is carried out where it is exact
BinaryResult(operator, left, right) ==
    LET numbers == left.k = "Number" /\ right.k = "Number"
        a == left.n
        b == right.n
    IN CASE operator \in {"Equals", "NotEquals"} ->
               ValueOk(ValueBool(ValuesEqual(left, right) = (operator = "Equals")))
         [] ~numbers -> ValueErr("TypeError")
         [] operator = "Multiply" -> ValueOk(ValueNumber(a * b))
         [] operator = "Divide" ->
               IF b = 0 THEN ValueErr("panic: division by zero")
               ELSE IF Abs(a) % Abs(b) # 0 THEN ValueErr("inexact division")
               ELSE ValueOk(ValueNumber(
                        (IF (a < 0) = (b < 0) THEN 1 ELSE -1) * (Abs(a) \div Abs(b))))
         [] operator = "Modulo" ->
               IF b = 0 THEN ValueErr("panic: division by zero")
               ELSE ValueOk(ValueNumber(
                        (IF a < 0 THEN -1 ELSE 1) * (Abs(a) % Abs(b))))
         [] operator = "Add" -> ValueOk(ValueNumber(a + b))
         [] operator = "Subtract" -> ValueOk(ValueNumber(a - b))
         [] operator = "RightShift" ->
               IF b < 0 THEN ValueErr("panic: negative shift")
               ELSE ValueOk(ValueNumber(a \div Pow2(b)))
         [] operator = "LeftShift" ->
               IF b < 0 THEN ValueErr("panic: negative shift")
               ELSE ValueOk(ValueNumber(a * Pow2(b)))
         [] operator \in {"BitAnd", "BitXor", "BitOr"} ->
               ValueOk(ValueNumber(Bitwise(operator, a, b)))
         [] operator = "Greater" -> ValueOk(ValueBool(a > b))
         [] operator = "GreaterEquals" -> ValueOk(ValueBool(a >= b))
         [] operator = "Less" -> ValueOk(ValueBool(a < b))
         [] operator = "LessEquals" -> ValueOk(ValueBool(a <= b))

\* Module::global: the index of the constant bound to a name, if any
GlobalIndex(m, name) ==
    IF name \in DOMAIN m.globals /\ m.globals[name] < Len(m.constants)
    THEN Some(m.globals[name])
    ELSE None

\* an active invocation of Vm::call: the function constant run, the frame
\* offset, the arity, the offset of the InstructionIter, whether the loop
\* was left by Return, and history (the stack length at entry)
\* below is history: the stack under the frame when the call was entered
Frame(fn, offset, arity, start_len) ==
    [fn |-> fn, offset |-> offset, arity |-> arity, ip |-> 0, returned |-> FALSE,
     start_len |-> start_len, below |-> <<>>]

Entered(frame, st) == [frame EXCEPT !.below = SubSeq(st, 1, frame.offset)]

\* the head of Vm::call without the comparison of the arities
CallEnterAnyArity(m, st, arity) ==
    LET offset == Len(st) - (arity + 1)
        function == st[offset + 1]
        failed(e) == [err |-> e, stack |-> st, frame |-> Frame(0, 0, 0, 0)]
    IN IF offset < 0 \/ offset >= Len(st) THEN failed("EmptyStack")
       ELSE IF function.k # "Function" THEN failed("TypeError")
       ELSE [err |-> "", stack |-> PopDeep(st, offset).stack,
             frame |-> Frame(function.f, offset, arity, Len(st))]

\* the head of Vm::call, up to the arity check: [err, stack, frame]
CallEnter(m, st, arity) ==
    LET offset == Len(st) - (arity + 1)
        function == st[offset + 1]
        failed(e) == [err |-> e, stack |-> st, frame |-> Frame(0, 0, 0, 0)]
    IN IF offset < 0 \/ offset >= Len(st) THEN failed("EmptyStack")
       ELSE IF function.k # "Function" THEN failed("TypeError")
       ELSE IF arity # m.constants[function.f + 1].arity THEN failed("ValueError")
       ELSE [err |-> "", stack |-> PopDeep(st, offset).stack,
             frame |-> Frame(function.f, offset, arity, Len(st))]

\* store-named that binds the global to the constant equal to the value on
\* top of the stack
StoreNamedWritesGlobal(m, st, ins) ==
    LET name == m.constants[ins.arg + 1].s
        v == st[Len(st)]
        equal == {i \in 1..Len(m.constants) : ValueConstant(m.constants, i - 1) = v}
        index == IF equal = {} THEN 0 ELSE (CHOOSE i \in equal : TRUE) - 1
    IN IF st = <<>> THEN [err |-> "EmptyStack", module |-> m, stack |-> st, jump |-> FALSE]
       ELSE [err |-> "", module |-> [m EXCEPT !.globals = MapInsert(@, name, index)],
             stack |-> SubSeq(st, 1, Len(st) - 1), jump |-> FALSE]

\* the StoreNamed arm of the loop in Vm::call
ExecuteStoreNamed(m, st, ins) ==
    [err |-> "Unsupported", module |-> m, stack |-> st, jump |-> FALSE]

\* the effect of one instruction of the loop in Vm::call on the Vm (&mut
\* self: module and stack), for the instructions that neither call nor
\* return: [err, module, stack, jump]
Execute(m, st, offset, ins) ==
    LET ok(new) == [err |-> "", module |-> m, stack |-> new, jump |-> FALSE]
        failed(e) == [err |-> e, module |-> m, stack |-> st, jump |-> FALSE]
        popped == StackPop(st)
    IN CASE ins.op = "Constant" ->
               IF ins.arg >= Len(m.constants) THEN failed("InvalidConstant")
               ELSE ok(Append(st, ValueConstant(m.constants, ins.arg)))
         [] ins.op = "InlineConstant" ->
               ok(Append(st, CASE ins.sub = "Unit" -> ValueUnit
                               [] ins.sub = "True" -> ValueBool(TRUE)
                               [] ins.sub = "False" -> ValueBool(FALSE)))
         [] ins.op = "Unary" ->
               IF popped.err # "" THEN failed(popped.err)
               ELSE LET r == UnaryResult(ins.sub, popped.v)
                    IN IF r.err # "" THEN failed(r.err)
                       ELSE ok(Append(popped.stack, r.v))
         [] ins.op = "Binary" ->
               LET ops == PopMultiple(st, 2)
               IN IF ops.err # "" THEN failed(ops.err)
                  ELSE LET r == BinaryResult(ins.sub, ops.vs[1], ops.vs[2])
                       IN IF r.err # ""
                          THEN [err |-> r.err, module |-> m, stack |-> ops.stack,
                                jump |-> FALSE]
                          ELSE ok(Append(ops.stack, r.v))
         [] ins.op = "LoadLocal" ->
               IF offset + ins.arg >= Len(st) THEN failed("InvalidLocal")
               ELSE ok(Append(st, st[offset + ins.arg + 1]))
         [] ins.op = "StoreLocal" ->
               IF popped.err # "" THEN failed(popped.err)
               ELSE IF offset + ins.arg >= Len(popped.stack) THEN failed("InvalidLocal")
               ELSE ok([popped.stack EXCEPT ![offset + ins.arg + 1] = popped.v])
         [] ins.op = "LoadNamed" ->
               IF ins.arg >= Len(m.constants) THEN failed("InvalidConstant")
               ELSE IF m.constants[ins.arg + 1].k # "String"
                    THEN failed("InvalidConstantType")
               ELSE LET index == GlobalIndex(m, m.constants[ins.arg + 1].s)
                    IN IF ~IsSome(index) THEN failed("NameError")
                       ELSE ok(Append(st, ValueConstant(m.constants, Unwrap(index))))
         [] ins.op = "StoreNamed" -> ExecuteStoreNamed(m, st, ins)
         [] ins.op \in {"LoadPositionalField", "StorePositionalField",
                        "LoadNamedField", "StoreNamedField"} -> failed("panic: todo")
         [] ins.op = "Pop" ->
               IF popped.err # "" THEN failed(popped.err) ELSE ok(popped.stack)
         [] ins.op = "PopScope" ->
               LET r == PopAllUnder(st, offset + ins.arg)
               IN IF r.err # "" THEN failed(r.err) ELSE ok(r.stack)
         [] ins.op = "Jump" -> [err |-> "", module |-> m, stack |-> st, jump |-> TRUE]
         [] ins.op = "JumpIf" ->
               IF popped.err # "" THEN failed(popped.err)
               ELSE IF popped.v.k # "Bool" THEN failed("TypeError")
               ELSE [err |-> "", module |-> m, stack |-> popped.stack,
                     jump |-> popped.v.b]

----------------------------------------------------------------------------
(* The source files compiled and run *)

\* identifiers, as character codes
id_main == <<109, 97, 105, 110>>
id_even == <<101, 118, 101, 110>>
id_odd == <<111, 100, 100>>
id_a == <<97>>
id_f == <<102>>
id_g == <<103>>
id_i == <<105>>
id_n == <<110>>
id_x == <<120>>
id_y == <<121>>
id_S == <<83>>
\* the string literal "a\n" with its quotes
EscapeLiteral == <<Quote, 97, Backslash, 110, Quote>>

Num(value) == ExprNumber(NumberToString(value))
Id(name) == ExprIdentifier(name)
Let(name, initializer) ==
    StmtVariableDeclaration(Variable(name, FALSE), Some(initializer))
LetMut(name, initializer) ==
    StmtVariableDeclaration(Variable(name, TRUE), Some(initializer))
LetNone(name) == StmtVariableDeclaration(Variable(name, FALSE), None)
Assign(name, right) == StmtAssignment(Id(name), right)
Do(expr) == StmtExpression(expr)
Body(statements) == Block(statements, None)
Yield(statements, expr) == Block(statements, Some(expr))
Fn(name, parameters, body) ==
    DeclFn(name, FnTrunk([p \in 1..Len(parameters) |-> Variable(parameters[p], FALSE)],
                         body))
Main(body) == Fn(id_main, <<>>, body)
If(condition, then_branch) == ExprIf(<<<<condition, then_branch>>>>, None)
IfElse(condition, then_branch, else_branch) ==
    ExprIf(<<<<condition, then_branch>>>>, Some(else_branch))

\* fn main() { left op right }, as tests/e2e_test.rs mod operators
BinaryMain(operator, left, right) ==
    <<Main(Yield(<<>>, ExprBinary(operator, Num(left), Num(right))))>>

OperatorPrograms ==
    { BinaryMain("Multiply", 3, 14), BinaryMain("Divide", 84, 2),
      BinaryMain("Modulo", 242, 100), BinaryMain("Add", 22, 20),
      BinaryMain("Subtract", 20, 62), BinaryMain("RightShift", 168, 2),
      BinaryMain("LeftShift", 21, 1), BinaryMain("BitAnd", 58, 47),
      BinaryMain("BitXor", 61, 23), BinaryMain("BitOr", 10, 40),
      BinaryMain("Equals", 42, 42), BinaryMain("NotEquals", 42, 69),
      BinaryMain("Greater", 69, 42), BinaryMain("GreaterEquals", 42, 42),
      BinaryMain("Less", 42, 69), BinaryMain("LessEquals", 69, 42),
      BinaryMain("GreaterEquals", 42, 69),
      BinaryMain("Divide", 1, 0),
      <<Main(Yield(<<>>, ExprUnary("Not", ExprBool(FALSE))))>>,
      <<Main(Yield(<<>>, ExprUnary("Negate", ExprUnary("Negate", Num(42)))))>>,
      <<Main(Yield(<<>>, ExprBinary("Add", Num(1), ExprBool(TRUE))))>>,
      <<Main(Yield(<<>>, ExprBinary("Equals", ExprString(EscapeLiteral), Num(1))))>>,
      <<Main(Yield(<<>>, ExprString(EscapeLiteral)))>> }

\* assignments: to mutable and immutable lets and parameters, shadowed
\* variables, globals, and something that is no identifier
AssignmentPrograms ==
    { <<Main(Yield(<<LetMut(id_x, Num(1)), Assign(id_x, Num(42))>>, Id(id_x)))>>,
      <<Main(Yield(<<Let(id_x, Num(1)), Assign(id_x, Num(42))>>, Id(id_x)))>>,
      <<Main(Yield(<<LetMut(id_x, Num(1)), Let(id_x, Num(2)), Assign(id_x, Num(3))>>, Id(id_x)))>>,
      <<Main(Yield(<<Let(id_x, Num(1)), LetMut(id_x, Num(2)), Assign(id_x, Num(3))>>, Id(id_x)))>>,
      <<Main(Yield(<<LetMut(id_x, Num(1)), LetMut(id_y, Num(2)),
                     Assign(id_x, ExprBinary("Add", Id(id_y), Num(40)))>>, Id(id_x)))>>,
      <<Fn(id_f, <<id_a>>, Yield(<<Assign(id_a, Num(1))>>, Id(id_a))),
        Main(Yield(<<>>, ExprCall(Id(id_f), <<Num(1)>>)))>>,
      <<Main(Yield(<<LetMut(id_x, Num(1)),
                     Do(ExprBlock(Body(<<Let(id_y, Num(2)), Assign(id_x, Id(id_y))>>)))>>,
                   Id(id_x)))>>,
      <<Main(Body(<<Assign(id_g, Num(1))>>))>>,
      <<Main(Body(<<Let(id_x, Num(1)), Assign(id_x, ExprBinary("Add", Num(1), Id(id_g)))>>))>>,
      <<Main(Body(<<StmtAssignment(Num(1), Num(2))>>))>> }

\* loops, break and continue, inside and outside a loop
LoopPrograms ==
    { <<Main(Yield(<<>>, ExprLoop(Body(<<StmtBreak(Some(Num(42)))>>))))>>,
      <<Main(Yield(<<LetMut(id_i, Num(0))>>,
             ExprLoop(Body(<<
                 Do(If(ExprBinary("GreaterEquals", Id(id_i), Num(2)),
                       Body(<<StmtBreak(Some(Id(id_i)))>>))),
                 Assign(id_i, ExprBinary("Add", Id(id_i), Num(1))),
                 StmtContinue>>))))>>,
      <<Main(Yield(<<>>, ExprLoop(Body(<<>>))))>>,
      <<Main(Body(<<StmtBreak(None)>>))>>,
      <<Main(Body(<<StmtContinue>>))>>,
      <<Main(Body(<<Let(id_x, Num(1)), Do(Num(2)), StmtBreak(Some(Id(id_x)))>>))>>,
      <<Main(Yield(<<>>, ExprLoop(Body(<<
            Do(ExprFn(FnTrunk(<<>>, Body(<<StmtBreak(None)>>))))>>))))>>,
      <<Main(Yield(<<>>, ExprLoop(Body(<<
            Do(ExprLoop(Body(<<StmtBreak(None)>>))), StmtBreak(Some(Num(42)))>>))))>>,
      <<Main(Yield(<<>>, ExprLoop(Body(<<Let(id_x, Num(1)), StmtBreak(None)>>))))>>,
      <<Main(Yield(<<>>, ExprLoop(Body(<<Let(id_x, Num(1)), StmtContinue>>))))>>,
      <<Main(Yield(<<>>, ExprLoop(Body(<<Let(id_x, Num(1)), StmtBreak(Some(Id(id_x)))>>))))>>,
      <<Main(Yield(<<Let(id_a, Num(1))>>,
             ExprLoop(Body(<<Let(id_x, Num(2)), StmtReturn(Some(Num(42)))>>))))>>,
      <<Main(Yield(<<StmtReturn(Some(Num(42)))>>, Num(1)))>>,
      <<Main(Yield(<<StmtReturn(None)>>, Num(1)))>> }

\* fn even(n) { if n == 0 { true } else { odd(n - 1) } } and its mirror
Parity(name, other, base) ==
    Fn(name, <<id_n>>,
       Yield(<<>>, IfElse(ExprBinary("Equals", Id(id_n), Num(0)),
                          Yield(<<>>, ExprBool(base)),
                          Yield(<<>>, ExprCall(Id(other),
                                   <<ExprBinary("Subtract", Id(id_n), Num(1))>>)))))

\* calls: recursion, function expressions, and calls that fail
CallPrograms ==
    { <<Parity(id_even, id_odd, TRUE), Parity(id_odd, id_even, FALSE),
        Main(Yield(<<>>, ExprCall(Id(id_even), <<Num(2)>>)))>>,
      <<Main(Yield(<<Let(id_f, ExprFn(FnTrunk(<<Variable(id_x, FALSE)>>,
                            Yield(<<>>, ExprBinary("Add", Id(id_x), Num(1))))))>>,
                   ExprCall(Id(id_f), <<Num(41)>>)))>>,
      <<Fn(id_f, <<>>, Yield(<<>>, Num(1))), Fn(id_g, <<>>, Yield(<<>>, Num(1))),
        Main(Yield(<<>>, ExprBinary("Equals", Id(id_f), Id(id_g))))>>,
      <<Main(Yield(<<>>, ExprCall(Num(1), <<>>)))>>,
      <<Fn(id_f, <<id_a>>, Yield(<<>>, Id(id_a))),
        Main(Yield(<<>>, ExprCall(Id(id_f), <<>>)))>>,
      <<Main(Yield(<<>>, ExprCall(Id(id_f), <<Num(1), Num(2)>>)))>>,
      <<Fn(id_f, <<>>, Yield(<<>>, Num(1)))>>,
      <<Main(Yield(<<>>, Id(id_y)))>>,
      <<Main(Yield(<<Do(Num(1)), Do(Num(1)), Do(ExprString(EscapeLiteral)),
                     Do(ExprString(EscapeLiteral))>>, Num(2)))>>,
      <<Main(Yield(<<>>, ExprNumber(<<120>>)))>>,
      <<Main(Yield(<<>>, ExprString(<<Quote, 97>>)))>> }

\* fn main() { let x = 1; { let x = 2; }; x }
EndedBlock ==
    <<Main(Yield(<<Let(id_x, Num(1)), Do(ExprBlock(Body(<<Let(id_x, Num(2))>>)))>>,
                 Id(id_x)))>>

\* fn f(a) { let a = 2; a }  fn main() { f(1) }
ShadowedParameter ==
    <<Fn(id_f, <<id_a>>, Yield(<<Let(id_a, Num(2))>>, Id(id_a))),
      Main(Yield(<<>>, ExprCall(Id(id_f), <<Num(1)>>)))>>

\* identifiers: shadowing, and uses after the block of a binding has ended
ScopePrograms ==
    { EndedBlock, ShadowedParameter,
      <<Main(Yield(<<Do(ExprBlock(Body(<<Let(id_y, Num(2))>>)))>>, Id(id_y)))>>,
      <<Main(Yield(<<Let(id_x, Num(1)), Let(id_y, Num(2)), Let(id_x, Num(3))>>,
                   ExprBinary("Subtract", Id(id_x), Id(id_y))))>> }

\* { x = x * 10 + digit; }, a statement that leaves a trace in x
Mark(digit) ==
    Assign(id_x, ExprBinary("Add", ExprBinary("Multiply", Id(id_x), Num(10)), Num(digit)))

\* fn main() { let mut x = 0;
\*             let y = if { x = x * 10 + 1; c1 } { x = x * 10 + 2; 7 }
\*                     else if { x = x * 10 + 3; c2 } { x = x * 10 + 4; 8 }
\*                     else { x = x * 10 + 5; 9 };
\*             x * 10 + y }
\* and, without the else, with `x` as the last expression
IfChain(c1, c2, else) ==
    LET chain == ExprIf(<< <<ExprBlock(Yield(<<Mark(1)>>, ExprBool(c1))),
                             Yield(<<Mark(2)>>, Num(7))>>,
                           <<ExprBlock(Yield(<<Mark(3)>>, ExprBool(c2))),
                             Yield(<<Mark(4)>>, Num(8))>> >>,
                        IF else THEN Some(Yield(<<Mark(5)>>, Num(9))) ELSE None)
    IN <<Main(Yield(<<LetMut(id_x, Num(0)), Let(id_y, chain)>>,
                    IF else
                    THEN ExprBinary("Add", ExprBinary("Multiply", Id(id_x), Num(10)),
                                    Id(id_y))
                    ELSE Id(id_x)))>>

\* if chains of two conditions, with and without an else
ChainPrograms == {IfChain(c1, c2, else) : c1, c2, else \in BOOLEAN}

\* fn main() { let x = 1; let f = fn(y) { x }; f(2) }
CapturedLocal ==
    <<Main(Yield(<<Let(id_x, Num(1)),
                   Let(id_f, ExprFn(FnTrunk(<<Variable(id_y, FALSE)>>,
                                            Yield(<<>>, Id(id_x)))))>>,
                 ExprCall(Id(id_f), <<Num(2)>>)))>>

\* fn main() { let x = 1; let f = fn(x) { x }; f(2) }
OwnParameter ==
    <<Main(Yield(<<Let(id_x, Num(1)),
                   Let(id_f, ExprFn(FnTrunk(<<Variable(id_x, FALSE)>>,
                                            Yield(<<>>, Id(id_x)))))>>,
                 ExprCall(Id(id_f), <<Num(2)>>)))>>

\* fn main() { loop { fn() { break; }; } } and the same with continue
JumpOutOfFn(jump) ==
    <<Main(Yield(<<>>, ExprLoop(Body(<<Do(ExprFn(FnTrunk(<<>>, Body(<<jump>>))))>>))))>>

\* fn main() { loop { break (fn() { loop { break 42; } })(); } }
LoopInFn ==
    <<Main(Yield(<<>>, ExprLoop(Body(<<
        StmtBreak(Some(ExprCall(
            ExprFn(FnTrunk(<<>>, Yield(<<>>, ExprLoop(Body(<<StmtBreak(Some(Num(42)))>>))))),
            <<>>)))>>))))>>

\* function expressions next to locals and loops of the function around them
FnPrograms ==
    { CapturedLocal, OwnParameter, JumpOutOfFn(StmtBreak(None)),
      JumpOutOfFn(StmtContinue), LoopInFn }

\* declarations: structs, and the declarations the compiler rejects
DeclarationPrograms ==
    { <<DeclStruct(id_S, "Empty", <<>>), Main(Yield(<<>>, Num(42)))>>,
      <<DeclStruct(id_S, "Positional", <<id_a, id_x>>), Main(Yield(<<>>, Num(42)))>>,
      <<DeclStruct(id_S, "Named", <<id_x, id_y>>), Main(Yield(<<>>, Id(id_x)))>>,
      <<DeclUse>>,
      <<DeclImpl, Main(Yield(<<>>, Num(42)))>>,
      <<Main(Yield(<<>>, Num(42))), DeclMixin, Fn(id_f, <<>>, Yield(<<>>, Num(1)))>>,
      <<Main(Yield(<<>>, Num(42))), DeclUse, DeclImpl>>,
      <<Main(Body(<<StmtBreak(None)>>)), DeclUse>>,
      <<Main(Body(<<StmtDeclaration(Fn(id_g, <<>>, Body(<<>>)))>>))>> }

\* bodies long enough for jump offsets that need more than eight bits
\*   fn main() { let a = 1; if false { true; ...  } a }
LongIf(statement, count) ==
    <<Main(Yield(<<Let(id_a, Num(1)),
                   Do(If(ExprBool(FALSE), Body(Repeat(statement, count))))>>,
                 Id(id_a)))>>
\*   fn main() { let a; ... loop { true; ... } true; ... }
LongLoop(locals, count, rest) ==
    <<Main(Body(Repeat(LetNone(id_a), locals)
                    \o <<Do(ExprLoop(Body(Repeat(Do(ExprBool(TRUE)), count))))>>
                    \o Repeat(Do(ExprBool(TRUE)), rest)))>>

\*   fn f() { if false { true; ... } }  fn main() { let a = 1; f(); a }
LongCall(count) ==
    <<Fn(id_f, <<>>, Yield(<<>>, If(ExprBool(FALSE), Body(Repeat(Do(ExprBool(TRUE)), count))))),
      Main(Yield(<<Let(id_a, Num(1)), Do(ExprCall(Id(id_f), <<>>))>>, Id(id_a)))>>

LongPrograms ==
    { LongIf(Do(ExprBool(TRUE)), 126), LongIf(Do(ExprBool(TRUE)), 60),
      LongIf(Do(Num(1)), 86), LongLoop(18, 127, 4), LongCall(126) }

Programs ==
    OperatorPrograms \cup AssignmentPrograms \cup LoopPrograms \cup CallPrograms
        \cup DeclarationPrograms \cup LongPrograms \cup ScopePrograms
        \cup ChainPrograms \cup FnPrograms

----------------------------------------------------------------------------
(* The pipeline: compile_ast, parse_bytecode, Vm::run *)

\* how many times a module is run
NumRuns == 2

NoEvent == [what |-> "none"]

Init ==
    /\ ast \in Programs
    /\ pc = "compile"
    /\ next_decl = 0
    /\ compiler = NewCompiler
    /\ cerr = ""
    /\ output = <<>>
    /\ module = None
    /\ stack = <<>>
    /\ frames = <<>>
    /\ run = 0
    /\ outcomes = <<>>
    /\ last = NoEvent

\* one iteration of the loop of Compiler::visit_source_file, inside
\* Module::new(ast)?: an Err ends compile_ast before anything is written
VisitDeclaration ==
    /\ pc = "compile"
    /\ next_decl < Len(ast)
    /\ \E r \in {VisitDeclarationResult(compiler, ast[next_decl + 1])} :
          /\ compiler' = r.compiler
          /\ cerr' = r.err
          /\ pc' = IF r.err = "" THEN "compile" ELSE "compile failed"
    /\ next_decl' = next_decl + 1
    /\ last' = [what |-> "declaration", before |-> compiler.constants]
    /\ UNCHANGED <<ast, output, module, stack, frames, run, outcomes>>

\* the rest of compile_ast: write_bytecode(w, &module)
CompileAst ==
    /\ pc = "compile"
    /\ next_decl = Len(ast)
    /\ output' = WriteBytecode(compiler)
    /\ pc' = "written"
    /\ last' = NoEvent
    /\ UNCHANGED <<ast, next_decl, compiler, cerr, module, stack, frames, run, outcomes>>

\* parse_bytecode(&bytecode), as the pipeline of tests/e2e_test.rs
ParseBytecodeStep ==
    /\ pc = "written"
    /\ \E r \in {ParseBytecode(output)} :
          IF r.err = ""
          THEN module' = Some(r.module) /\ pc' = "parsed"
          ELSE module' = None /\ pc' = "parse failed"
    /\ last' = [what |-> "parse_bytecode", err |-> ParseBytecode(output).err]
    /\ UNCHANGED <<ast, next_decl, compiler, cerr, output, stack, frames, run, outcomes>>

\* the outcome of Vm::run: Ok(value), Err(err), or a panic
Returned(value) == [err |-> "", value |-> value]
Failed(err) == [err |-> err, value |-> ValueUnit]

\* an error raised inside a callee that the calling frame swallows: the
\* callee is left with unit as its result and the caller goes on
FinishCaught(outcome) ==
    IF outcome.err # "" /\ Len(frames) > 1
    THEN /\ outcomes' = outcomes
         /\ pc' = pc
         /\ stack' = Append(SubSeq(stack, 1, Min(Len(stack), frames[Len(frames)].offset)),
                            ValueUnit)
         /\ frames' = SubSeq(frames, 1, Len(frames) - 1)
    ELSE /\ outcomes' = Append(outcomes, outcome)
         /\ pc' = "parsed"
         /\ stack' = <<>>
         /\ frames' = <<>>

\* Vm::run is over: the Vm is dropped, its outcome is known
Finish(outcome) ==
    /\ outcomes' = Append(outcomes, outcome)
    /\ pc' = "parsed"
    /\ stack' = <<>>
    /\ frames' = <<>>

\* Vm::new(module).run() up to the first instruction: load_named_by_name
\* and the head of call(0)
Run ==
    /\ pc = "parsed"
    /\ run < NumRuns
    /\ run' = run + 1
    /\ last' = NoEvent
    /\ LET m == Unwrap(module)
           index == GlobalIndex(m, id_main)
           entered == CallEnter(m, <<ValueConstant(m.constants, Unwrap(index))>>, 0)
       IN IF ~IsSome(index) THEN Finish(Failed("NameError"))
          ELSE IF entered.err # "" THEN Finish(Failed(entered.err))
          ELSE /\ stack' = entered.stack
               /\ frames' = <<Entered(entered.frame, entered.stack)>>
               /\ pc' = "running"
               /\ outcomes' = outcomes
    /\ UNCHANGED <<ast, next_decl, compiler, cerr, output, module>>

\* the innermost invocation of Vm::call and the bytes of its body
Top == frames[Len(frames)]
TopBody == Unwrap(module).constants[Top.fn + 1].body

\* one iteration of `while let Some(ins) = instructions.next()` in the
\* innermost Vm::call
Step ==
    /\ pc = "running"
    /\ frames # <<>>
    /\ ~Top.returned
    /\ Top.ip < Len(TopBody)
    /\ LET m == Unwrap(module)
           item == IterNext(TopBody, Top.ip)
           ins == item.ins
           at(ip) == [frames EXCEPT ![Len(frames)].ip = ip]
           entered == CallEnter(m, stack, ins.arg)
           under == PopAllUnder(stack, Top.offset + Top.arity)
           done == Execute(m, stack, Top.offset, ins)
           target == IterJump(TopBody, item.offset, ins)
           fault == IF item.err # "" THEN "InvalidBytecode"
                    ELSE CASE ins.op = "Call" -> entered.err
                           [] ins.op = "Return" -> under.err
                           [] OTHER -> IF done.err # "" THEN done.err
                                       ELSE IF done.jump /\ ~IsSome(target)
                                       THEN "panic: jump"
                                       ELSE ""
       IN /\ last' = [what |-> "step", fn |-> Top.fn, ip |-> Top.ip, ins |-> ins,
                      err |-> item.err, height |-> Len(stack) - Top.offset,
                      next |-> item.offset, depth |-> Len(frames), fault |-> fault,
                      before |-> stack]
          /\ IF item.err # ""
             THEN Finish(Failed("InvalidBytecode")) /\ module' = module
             ELSE CASE ins.op = "Call" ->
                       /\ module' = module
                       /\ IF entered.err # "" THEN Finish(Failed(entered.err))
                          ELSE /\ stack' = entered.stack
                               /\ frames' = Append(at(item.offset),
                                               Entered(entered.frame, entered.stack))
                               /\ UNCHANGED <<pc, outcomes>>
                    [] ins.op = "Return" ->
                       /\ module' = module
                       /\ IF under.err # "" THEN Finish(Failed(under.err))
                          ELSE /\ stack' = under.stack
                               /\ frames' = [at(item.offset) EXCEPT
                                                ![Len(frames)].returned = TRUE]
                               /\ UNCHANGED <<pc, outcomes>>
                    [] OTHER ->
                       /\ module' = Some(done.module)
                       /\ IF done.err # "" THEN Finish(Failed(done.err))
                          ELSE IF done.jump /\ ~IsSome(target)
                          THEN Finish(Failed("panic: jump"))
                          ELSE /\ stack' = done.stack
                               /\ frames' = at(IF done.jump THEN Unwrap(target)
                                              ELSE item.offset)
                               /\ UNCHANGED <<pc, outcomes>>
    /\ UNCHANGED <<ast, next_decl, compiler, cerr, output, run>>

\* the tail of Vm::call, after the loop: the assertion and
\* pop_all_under(offset)
CallEnd ==
    /\ pc = "running"
    /\ frames # <<>>
    /\ Top.returned \/ Top.ip >= Len(TopBody)
    /\ LET under == PopAllUnder(stack, Top.offset)
           asserted == Len(stack) = Top.offset + Top.arity + 1
       IN /\ last' = [what |-> "call", fn |-> Top.fn, start_len |-> Top.start_len,
                      arity |-> Top.arity, offset |-> Top.offset, below |-> Top.below,
                      returned |-> Top.returned, asserted |-> asserted,
                      result |-> IF stack = <<>> THEN None ELSE Some(stack[Len(stack)]),
                      err |-> IF ~asserted THEN "panic: assert_eq" ELSE under.err,
                      stack |-> IF asserted /\ under.err = "" THEN under.stack
                                ELSE stack]
          /\ IF ~asserted THEN Finish(Failed("panic: assert_eq"))
             ELSE IF under.err # "" THEN Finish(Failed(under.err))
             ELSE /\ stack' = under.stack
                  /\ frames' = SubSeq(frames, 1, Len(frames) - 1)
                  /\ UNCHANGED <<pc, outcomes>>
    /\ UNCHANGED <<ast, next_decl, compiler, cerr, output, module, run>>

\* the tail of Vm::run: self.stack.pop()
RunEnd ==
    /\ pc = "running"
    /\ frames = <<>>
    /\ LET popped == StackPop(stack)
       IN IF popped.err # "" THEN Finish(Failed(popped.err))
          ELSE Finish(Returned(popped.v))
    /\ last' = NoEvent
    /\ UNCHANGED <<ast, next_decl, compiler, cerr, output, module, run>>

Next ==
    \/ VisitDeclaration
    \/ CompileAst
    \/ ParseBytecodeStep
    \/ Run
    \/ Step
    \/ CallEnd
    \/ RunEnd

Spec == Init /\ [][Next]_vars

\* Vm::run is one thread that does not stop between two instructions, nor
\* between the end of a call and what follows it
SpecLive == Spec /\ WF_vars(Step) /\ WF_vars(CallEnd) /\ WF_vars(RunEnd)

----------------------------------------------------------------------------
(* The constant pool on its own: sequences of add_constant and add_global
   calls on one Compiler *)

\* the constants the calls draw from: numbers, strings, and functions that
\* differ in arity or in body
PoolConstants ==
    { NumberConstant(1), NumberConstant(2), StringConstant(id_f),
      FunctionConstant(0, <<InlineUnit>>), FunctionConstant(1, <<LoadLocal(0)>>) }

PoolGlobals == { FunctionConstant(0, <<InlineUnit>>), NumberConstant(2) }

InitPool ==
    /\ ast = <<>>
    /\ pc = "pool"
    /\ next_decl = 0
    /\ compiler = NewCompiler
    /\ cerr = ""
    /\ output = <<>>
    /\ module = None
    /\ stack = <<>>
    /\ frames = <<>>
    /\ run = 0
    /\ outcomes = <<>>
    /\ last = NoEvent

\* one call of Compiler::add_constant
AddConstantCall ==
    /\ pc = "pool"
    /\ \E constant \in PoolConstants :
          /\ compiler' = AddConstant(compiler, constant)
          /\ last' = [what |-> "add_constant", before |-> compiler.constants,
                      constant |-> constant,
                      index |-> AddConstantIndex(compiler, constant)]
    /\ UNCHANGED <<ast, pc, next_decl, cerr, output, module, stack, frames, run,
                   outcomes>>

\* one call of Compiler::add_global
AddGlobalCall ==
    /\ pc = "pool"
    /\ \E value \in PoolGlobals :
          /\ compiler' = AddGlobal(compiler, id_f, value)
          /\ last' = [what |-> "add_global", before |-> compiler.constants,
                      constant |-> value,
                      index |-> AddConstantIndex(AddConstant(compiler,
                                                             StringConstant(id_f)),
                                                 value)]
    /\ UNCHANGED <<ast, pc, next_decl, cerr, output, module, stack, frames, run,
                   outcomes>>

NextPool ==
    \/ AddConstantCall
    \/ AddGlobalCall

SpecPool == InitPool /\ [][NextPool]_vars

----------------------------------------------------------------------------
(* The instruction decoder on its own: an InstructionIter over the body of
   a function, driven by next() and jump() *)

\* the bytes the bodies are made of: opcodes without and with a parameter,
\* the operator opcodes, a jump, the first byte that is no opcode, and 255
IterBytes == {0, 1, 4, 5, 18, 22, 255}

\* the longest body
MaxBody == 3

IterBodies == UNION {[1..n -> IterBytes] : n \in 0..MaxBody}

\* the jump distances tried
MaxDelta == 4

InitIter ==
    /\ ast = <<>>
    /\ pc = "iterating"
    /\ next_decl = 0
    /\ compiler = NewCompiler
    /\ cerr = ""
    /\ output = <<>>
    /\ \E body \in IterBodies :
          module = Some(Module(<<FunctionConstant(0, body)>>, EmptyMap, EmptyMap))
    /\ stack = <<>>
    /\ frames = <<Frame(0, 0, 0, 0)>>
    /\ run = 0
    /\ outcomes = <<>>
    /\ last = NoEvent

\* one call of next() on the iterator
IterNextCall ==
    /\ pc = "iterating"
    /\ \E item \in {IterNext(TopBody, Top.ip)} :
          /\ frames' = [frames EXCEPT ![Len(frames)].ip = item.offset]
          /\ last' = [what |-> "next", ip |-> Top.ip, some |-> item.some,
                      err |-> item.err, ins |-> item.ins, offset |-> item.offset]
    /\ UNCHANGED <<ast, pc, next_decl, compiler, cerr, output, module, stack, run,
                   outcomes>>

\* one call of jump(offset) on the iterator; the subtraction or the slice
\* panics when the target is outside the body
IterJumpCall ==
    /\ pc = "iterating"
    /\ \E dir \in {"Forward", "Backward"}, delta \in 0..MaxDelta :
          \E target \in {IterJump(TopBody, Top.ip, Jump(dir, delta))} :
              /\ last' = [what |-> "jump", ip |-> Top.ip, dir |-> dir, delta |-> delta,
                          panicked |-> ~IsSome(target)]
              /\ IF IsSome(target)
                 THEN /\ frames' = [frames EXCEPT ![Len(frames)].ip = Unwrap(target)]
                      /\ pc' = pc
                 ELSE /\ frames' = frames
                      /\ pc' = "panicked"
    /\ UNCHANGED <<ast, next_decl, compiler, cerr, output, module, stack, run,
                   outcomes>>

NextIter ==
    \/ IterNextCall
    \/ IterJumpCall

SpecIter == InitIter /\ [][NextIter]_vars

----------------------------------------------------------------------------
(* The VM on modules that no compiler wrote: Vm::new(module).run() on
   bytecode assembled by hand *)

\* the module of a file with the constants "main", fn main, "f", fn f and
\* the number 7, and the globals main and f
HandModule(main_body, f_arity, f_body) ==
    Module(<<StringConstant(id_main), FunctionConstant(0, WriteBody(main_body)),
             StringConstant(id_f), FunctionConstant(f_arity, WriteBody(f_body)),
             NumberConstant(7)>>,
           MapInsert(MapInsert(EmptyMap, id_main, 1), id_f, 3),
           EmptyMap)

\* jumps inside and outside the body
JumpModules ==
    { HandModule(<<Jump("Backward", 5)>>, 0, <<InlineUnit>>),
      HandModule(<<InlineUnit, Jump("Forward", 3)>>, 0, <<InlineUnit>>),
      HandModule(<<InlineUnit, Jump("Forward", 0)>>, 0, <<InlineUnit>>),
      HandModule(<<InlineUnit, InlineBool(TRUE), JumpIf("Forward", 1)>>, 0, <<InlineUnit>>),
      HandModule(<<InlineUnit, InlineBool(FALSE), JumpIf("Backward", 9)>>, 0,
                 <<InlineUnit>>),
      HandModule(<<InlineUnit, InlineBool(TRUE), JumpIf("Backward", 9)>>, 0,
                 <<InlineUnit>>),
      HandModule(<<Jump("Forward", 3), InlineUnit, Jump("Forward", 2),
                   Jump("Backward", 5)>>, 0, <<InlineUnit>>),
      HandModule(<<Constant(4), Jump("Forward", 1), Pop>>, 0, <<InlineUnit>>),
      HandModule(<<LoadNamed(2), Call(0)>>, 0, <<InlineUnit, Jump("Backward", 4)>>) }

\* calls of what is there, of what is not, and with the wrong arity
CallModules ==
    { HandModule(<<Call(0)>>, 0, <<InlineUnit>>),
      HandModule(<<InlineUnit, Call(2)>>, 0, <<InlineUnit>>),
      HandModule(<<InlineUnit, Call(0)>>, 0, <<InlineUnit>>),
      HandModule(<<Constant(4), InlineUnit, Call(1)>>, 1, <<InlineUnit>>),
      HandModule(<<LoadNamed(2), Call(0)>>, 1, <<LoadLocal(0)>>),
      HandModule(<<LoadNamed(2), InlineUnit, Call(1)>>, 0, <<InlineUnit>>),
      HandModule(<<LoadNamed(2), Constant(4), Call(1)>>, 1, <<LoadLocal(0)>>),
      HandModule(<<LoadNamed(2), Call(0)>>, 0, <<LoadNamed(2), InlineUnit, Call(1)>>),
      HandModule(<<LoadNamed(2), Call(0)>>, 0, <<InlineUnit, Call(0)>>) }

\* errors at the first and at the second call depth, with code after them
FailingModules ==
    { HandModule(<<LoadNamed(2), Call(0), Pop, Constant(4)>>, 0,
                 <<InlineUnit, Unary("Negate"), Pop, InlineUnit>>),
      HandModule(<<LoadNamed(2), Call(0), Pop, Constant(4)>>, 0,
                 <<Constant(9), InlineUnit>>),
      HandModule(<<LoadNamed(2), Call(0), Pop, Constant(4)>>, 0,
                 <<InlineUnit, StoreNamed(2), InlineUnit>>),
      HandModule(<<LoadNamed(2), Call(0), Pop, Constant(4)>>, 0,
                 <<LoadLocal(3), InlineUnit>>),
      HandModule(<<LoadNamed(2), Call(0), Pop, Constant(4)>>, 0,
                 <<LoadNamed(4), InlineUnit>>),
      HandModule(<<LoadNamed(2), Call(0), Pop, Constant(4)>>, 0,
                 <<InlineUnit, Return, InlineUnit>>),
      HandModule(<<Constant(4), InlineUnit, Binary("Add"), InlineUnit>>, 0,
                 <<InlineUnit>>),
      HandModule(<<Pop, InlineUnit>>, 0, <<InlineUnit>>),
      HandModule(<<InlineUnit, JumpIf("Forward", 0), InlineUnit>>, 0, <<InlineUnit>>) }

VmModules == JumpModules \cup CallModules \cup FailingModules

InitVm ==
    /\ ast = <<>>
    /\ pc = "parsed"
    /\ next_decl = 0
    /\ compiler = NewCompiler
    /\ cerr = ""
    /\ output = <<>>
    /\ \E m \in VmModules : module = Some(m)
    /\ stack = <<>>
    /\ frames = <<>>
    /\ run = 0
    /\ outcomes = <<>>
    /\ last = NoEvent

NextVm ==
    \/ Run
    \/ Step
    \/ CallEnd
    \/ RunEnd

SpecVm == InitVm /\ [][NextVm]_vars

----------------------------------------------------------------------------
(* The stack and the operators on their own *)

\* how long the stacks drawn are
MaxStack == 2

\* the values drawn: one of a kind and more, with negative numbers and the
\* two functions of a HandModule
OpValues ==
    { ValueUnit, ValueBool(TRUE), ValueBool(FALSE),
      ValueNumber(-1), ValueNumber(0), ValueNumber(2), ValueNumber(7),
      ValueString(id_f), ValueString(id_main),
      ValueFunction(1), ValueFunction(3) }

OpStacks == UNION {[1..n -> OpValues] : n \in 0..MaxStack}

InitOps ==
    /\ ast = <<>>
    /\ pc = "operating"
    /\ next_decl = 0
    /\ compiler = NewCompiler
    /\ cerr = ""
    /\ output = <<>>
    /\ module = Some(HandModule(<<>>, 1, <<>>))
    /\ stack \in OpStacks
    /\ frames = <<>>
    /\ run = 0
    /\ outcomes = <<>>
    /\ last = NoEvent

\* self.stack.pop()
PopCall ==
    /\ pc = "operating"
    /\ \E r \in {StackPop(stack)} :
          /\ stack' = r.stack
          /\ last' = [what |-> "pop", before |-> stack, err |-> r.err, v |-> r.v]
    /\ pc' = "operated"
    /\ UNCHANGED <<ast, next_decl, compiler, cerr, output, module, frames, run, outcomes>>

\* self.stack.pop_deep(index)
PopDeepCall ==
    /\ pc = "operating"
    /\ \E index \in 0..(MaxStack + 1) :
          \E r \in {PopDeep(stack, index)} :
             /\ stack' = r.stack
             /\ last' = [what |-> "pop_deep", before |-> stack, index |-> index,
                         err |-> r.err, v |-> r.v]
    /\ pc' = "operated"
    /\ UNCHANGED <<ast, next_decl, compiler, cerr, output, module, frames, run, outcomes>>

\* self.stack.pop_multiple(count), the iterator collected
PopMultipleCall ==
    /\ pc = "operating"
    /\ \E count \in 0..(MaxStack + 1) :
          \E r \in {PopMultiple(stack, count)} :
             /\ stack' = r.stack
             /\ last' = [what |-> "pop_multiple", before |-> stack, count |-> count,
                         err |-> r.err, vs |-> r.vs]
    /\ pc' = "operated"
    /\ UNCHANGED <<ast, next_decl, compiler, cerr, output, module, frames, run, outcomes>>

\* self.stack.pop_all_under(index), the iterator dropped
PopAllUnderCall ==
    /\ pc = "operating"
    /\ \E index \in 0..(MaxStack + 1) :
          \E r \in {PopAllUnder(stack, index)} :
             /\ stack' = r.stack
             /\ last' = [what |-> "pop_all_under", before |-> stack, index |-> index,
                         err |-> r.err]
    /\ pc' = "operated"
    /\ UNCHANGED <<ast, next_decl, compiler, cerr, output, module, frames, run, outcomes>>

\* self.binary(operator)
BinaryCall ==
    /\ pc = "operating"
    /\ \E i \in 1..Len(BinaryOperators) :
          \E r \in {Execute(Unwrap(module), stack, 0, Binary(BinaryOperators[i]))} :
             /\ stack' = r.stack
             /\ last' = [what |-> "binary", before |-> stack,
                         operator |-> BinaryOperators[i], err |-> r.err]
    /\ pc' = "operated"
    /\ UNCHANGED <<ast, next_decl, compiler, cerr, output, module, frames, run, outcomes>>

NextOps ==
    \/ PopCall
    \/ PopDeepCall
    \/ PopMultipleCall
    \/ PopAllUnderCall
    \/ BinaryCall

SpecOps == InitOps /\ [][NextOps]_vars

----------------------------------------------------------------------------
(* string_from_literal on its own *)

\* how long the literals drawn are
MaxLiteral == 4

\* the characters drawn: the double quote, the backslash, n, r, t and a
LiteralChars == {Quote, Backslash, 110, 114, 116, 97}

Literals == UNION {[1..n -> LiteralChars] : n \in 0..MaxLiteral}

\* output holds the literal
InitLiteral ==
    /\ ast = <<>>
    /\ pc = "literal"
    /\ next_decl = 0
    /\ compiler = NewCompiler
    /\ cerr = ""
    /\ output \in Literals
    /\ module = None
    /\ stack = <<>>
    /\ frames = <<>>
    /\ run = 0
    /\ outcomes = <<>>
    /\ last = NoEvent

\* string_from_literal(literal)
StringFromLiteralCall ==
    /\ pc = "literal"
    /\ \E r \in {string_from_literal(output)} :
          last' = [what |-> "string_from_literal", literal |-> output,
                   err |-> r.err, string |-> r.string]
    /\ pc' = "unescaped"
    /\ UNCHANGED <<ast, next_decl, compiler, cerr, output, module, stack, frames, run,
                   outcomes>>

NextLiteral == StringFromLiteralCall

SpecLiteral == InitLiteral /\ [][NextLiteral]_vars

----------------------------------------------------------------------------
(* parse_bytecode on bytes that no compiler wrote *)

\* the greatest constant index written into a table
MaxRef == 3

\* two strings and a number: the indices from 3 on refer to no constant
HandConstants == <<StringConstant(id_f), NumberConstant(7), StringConstant(id_S)>>

\* the declarations written: name is the name index of the struct
HandStructTypes ==
    { StructType("Empty", 0, <<>>), StructType("Positional", 2, <<>>) }
        \cup { StructType("Named", 0, <<0, field>>) : field \in 0..MaxRef }

\* modules of one global and one struct, handed to write_bytecode
HandTables ==
    { [NewCompiler EXCEPT !.constants = HandConstants,
                          !.globals = MapInsert(EmptyMap, name, value),
                          !.struct_types = MapInsert(EmptyMap, struct_name, struct_type)] :
          name \in 0..MaxRef, value \in 0..MaxRef, struct_name \in 0..MaxRef,
          struct_type \in HandStructTypes }

InitParse ==
    /\ ast = <<>>
    /\ pc = "written"
    /\ next_decl = 0
    /\ compiler \in HandTables
    /\ cerr = ""
    /\ output = WriteBytecode(compiler)
    /\ module = None
    /\ stack = <<>>
    /\ frames = <<>>
    /\ run = 0
    /\ outcomes = <<>>
    /\ last = NoEvent

NextParse == ParseBytecodeStep

SpecParse == InitParse /\ [][NextParse]_vars

----------------------------------------------------------------------------
(* The lengths of instructions on their own: an InstructionCompiler that is
   pushed instructions and placeholders, whose placeholders are patched, and
   whose instructions are written by writer::function and read back by the
   InstructionIter *)

\* the longest sequence of instructions
MaxItems == 2

\* one instruction for every opcode; 300 is a parameter that does not fit in
\* a byte
LenInstructions ==
    { Constant(300), InlineUnit, InlineBool(TRUE), InlineBool(FALSE), Unary("Not"),
      Binary("Add"), LoadLocal(0), StoreLocal(0), LoadNamed(1), StoreNamed(1),
      Ins("LoadPositionalField", 0, ""), Ins("StorePositionalField", 0, ""),
      Ins("LoadNamedField", 1, ""), Ins("StoreNamedField", 1, ""), Pop, PopScope(0),
      Call(0), Return, Jump("Forward", 0), Jump("Backward", 2),
      JumpIf("Forward", 300), JumpIf("Backward", 2) }

\* the indices (from 0) of the placeholders not patched yet
Unpatched(s) ==
    {i \in 0..(Len(s.instructions) - 1) : ~IsReal(s.instructions[i + 1])}

\* the InstructionCompiler of a function with enough parameters for every
\* instruction pushed to find its operands on the virtual stack
InitLen ==
    /\ ast = <<>>
    /\ pc = "lowering"
    /\ next_decl = 0
    /\ compiler = [NewInstructionCompiler(NewCompiler) EXCEPT
                      !.stack = Repeat(NoVar, 2 * MaxItems + 2)]
    /\ cerr = ""
    /\ output = <<>>
    /\ module = None
    /\ stack = <<>>
    /\ frames = <<>>
    /\ run = 0
    /\ outcomes = <<>>
    /\ last = NoEvent

\* self.push(instruction)?
PushCall ==
    /\ pc = "lowering"
    /\ Len(compiler.instructions) < MaxItems
    /\ \E instruction \in LenInstructions :
          \E s1 \in {Push(compiler, instruction)} :
              /\ IsOk(s1)
              /\ compiler' = s1
    /\ last' = [what |-> "push"]
    /\ UNCHANGED <<ast, pc, next_decl, cerr, output, module, stack, frames, run,
                   outcomes>>

\* self.push_placeholder(kind)?
PushPlaceholderCall ==
    /\ pc = "lowering"
    /\ Len(compiler.instructions) < MaxItems
    /\ \E kind \in {"Jump", "JumpIf"} :
          \E s1 \in {PushPlaceholder(compiler, kind)} :
              /\ IsOk(s1)
              /\ compiler' = s1
    /\ last' = [what |-> "push_placeholder"]
    /\ UNCHANGED <<ast, pc, next_decl, cerr, output, module, stack, frames, run,
                   outcomes>>

\* placeholder.jump_fwd_to_current(self); outcomes keeps where each patched
\* jump is meant to lead
JumpFwdToCurrentCall ==
    /\ pc = "lowering"
    /\ \E index \in Unpatched(compiler) :
          /\ compiler' = JumpFwdToCurrent(compiler,
                             Placeholder(index, compiler.instructions[index + 1].sub))
          /\ outcomes' = Append(outcomes, [index |-> index,
                                           to |-> Len(compiler.instructions)])
    /\ last' = [what |-> "jump_fwd_to_current"]
    /\ UNCHANGED <<ast, pc, next_decl, cerr, output, module, stack, frames, run>>

\* placeholder.jump_back_to_index(self, to_index), to an instruction not
\* after the placeholder
JumpBackToIndexCall ==
    /\ pc = "lowering"
    /\ \E index \in Unpatched(compiler) :
          \E to_index \in 0..index :
              /\ compiler' = JumpBackToIndex(compiler,
                                 Placeholder(index, compiler.instructions[index + 1].sub),
                                 to_index)
              /\ outcomes' = Append(outcomes, [index |-> index, to |-> to_index])
    /\ last' = [what |-> "jump_back_to_index"]
    /\ UNCHANGED <<ast, pc, next_decl, cerr, output, module, stack, frames, run>>

\* writer::function on the instructions, none of them a placeholder any
\* more, and an InstructionIter over the bytes written
WriteFunctionCall ==
    /\ pc = "lowering"
    /\ Unpatched(compiler) = {}
    /\ \E body \in {WriteBody(compiler.instructions)} :
          /\ output' = body
          /\ module' = Some(Module(<<FunctionConstant(0, body)>>, EmptyMap, EmptyMap))
    /\ frames' = <<Frame(0, 0, 0, 0)>>
    /\ pc' = "iterating"
    /\ last' = [what |-> "function"]
    /\ UNCHANGED <<ast, next_decl, compiler, cerr, stack, run, outcomes>>

NextLen ==
    \/ PushCall
    \/ PushPlaceholderCall
    \/ JumpFwdToCurrentCall
    \/ JumpBackToIndexCall
    \/ WriteFunctionCall
    \/ IterNextCall

SpecLen == InitLen /\ [][NextLen]_vars

----------------------------------------------------------------------------
(* Properties of the pipeline *)

\* the indices (from 1) of the function constants of a pool
FunctionIndices(constants) ==
    {i \in 1..Len(constants) : constants[i].k = "Function"}

\* the byte offset at which each instruction of a body starts
InstructionStarts(body) ==
    {RangeEncodedLen(body, 0, j) : j \in 0..(Len(body) - 1)}

\* the index (from 0) of the instruction of a body that starts at a byte
\* offset, if one does
InstructionAt(body, offset) ==
    LET at == {j \in 0..(Len(body) - 1) : RangeEncodedLen(body, 0, j) = offset}
    IN IF at = {} THEN None ELSE Some(CHOOSE j \in at : TRUE)

\* a constant read back by parse_bytecode is the constant that was generated;
\* a function's body is compared through the instruction decoder
SameConstant(generated, parsed) ==
    /\ parsed.k = generated.k
    /\ parsed.n = generated.n
    /\ parsed.s = generated.s
    /\ parsed.arity = generated.arity
    /\ generated.k = "Function" =>
          LET decoded == DecodeAll(parsed.body)
          IN decoded.err = "" /\ decoded.body = generated.body

\* the parsed module binds the same global names to the same constants
SameGlobals(c, m) ==
    /\ DOMAIN m.globals = {c.constants[k + 1].s : k \in DOMAIN c.globals}
    /\ \A k \in DOMAIN c.globals : m.globals[c.constants[k + 1].s] = c.globals[k]

SameModule(c, m) ==
    /\ Len(m.constants) = Len(c.constants)
    /\ \A i \in 1..Len(c.constants) : SameConstant(c.constants[i], m.constants[i])
    /\ SameGlobals(c, m)

\* C1: whenever compile_ast has succeeded, parse_bytecode succeeds on the
\* bytes it wrote and the module read back has the constants of the compiled
\* module in the same order and the same global bindings, every function
\* with its arity and an instruction sequence equal to the generated one
\* (constant indices, local slots, pop-scope depths, call arities and jump
\* offsets included)
C1_RoundTrip ==
    pc \in {"parsed", "parse failed", "running"} =>
        /\ pc # "parse failed"
        /\ IsSome(module)
        /\ SameModule(compiler, Unwrap(module))

\* C2: when a call completes without error the stack is one value longer
\* than the frame offset L - arity - 1, where L was the stack length when
\* the call was entered, that value is the result, and the assertion at the
\* end of Vm::call has held
C2_StackFrame ==
    last.what = "call" =>
        /\ last.asserted
        /\ last.err = "" =>
              /\ last.offset = last.start_len - last.arity - 1
              /\ Len(last.stack) = last.offset + 1
              /\ Some(last.stack[Len(last.stack)]) = last.result

\* C3: at every instruction the virtual-stack depth the compiler tracked
\* equals the height of the run-time stack above the frame offset, the depth
\* is never negative, and a local slot addresses a live slot of the frame
C3_StackEffect ==
    last.what = "step" /\ last.err = "" =>
        LET body == compiler.constants[last.fn + 1].body
            vdepth == compiler.fn_vdepth[last.fn + 1]
            at == InstructionAt(body, last.ip)
        IN /\ IsSome(at)
           /\ vdepth[Unwrap(at) + 1] = last.height
           /\ last.height >= 0
           /\ last.ins.op = "LoadLocal" => last.ins.arg < last.height
           /\ last.ins.op = "StoreLocal" => last.ins.arg < last.height - 1

\* every jump of a written function body lands on the first byte of an
\* instruction of the body
JumpsLand(bytes) ==
    LET decoded == DecodeAll(bytes)
        body == decoded.body
        starts == InstructionStarts(body)
        after(j) == RangeEncodedLen(body, 0, j)
        target(j) == IF body[j].sub = "Forward" THEN after(j) + body[j].arg
                     ELSE after(j) - body[j].arg
    IN /\ decoded.err = ""
       /\ \A j \in 1..Len(body) :
             body[j].op \in {"Jump", "JumpIf"} => target(j) \in starts

\* C4: in the bytecode that is written, every jump's target is the start of
\* an instruction inside the same function body
C4_JumpValidity ==
    pc = "written" =>
        \A i \in FunctionIndices(compiler.constants) :
            JumpsLand(WriteBody(compiler.constants[i].body))

\* the place (from 0) of a constant in a pool, if it is there
PlaceOf(constants, constant) ==
    LET at == {i \in 1..Len(constants) : constants[i] = constant}
    IN IF at = {} THEN None ELSE Some((CHOOSE i \in at : TRUE) - 1)

\* the pool holds no two equal constants, and the last add_constant returned
\* the index of the equal entry, or appended and returned the new index
PoolInterned ==
    /\ \A i, j \in 1..Len(compiler.constants) :
          compiler.constants[i] = compiler.constants[j] => i = j
    /\ last.what \in {"add_constant", "add_global"} =>
          LET place == PlaceOf(last.before, last.constant)
          IN /\ compiler.constants[last.index + 1] = last.constant
             /\ last.what = "add_constant" /\ IsSome(place) =>
                   /\ last.index = Unwrap(place)
                   /\ compiler.constants = last.before
             /\ last.what = "add_constant" /\ ~IsSome(place) =>
                   /\ last.index = Len(last.before)
                   /\ compiler.constants = Append(last.before, last.constant)

\* no call moves or replaces an entry of the pool
PoolKept ==
    /\ Len(compiler'.constants) >= Len(compiler.constants)
    /\ \A i \in 1..Len(compiler.constants) :
          compiler'.constants[i] = compiler.constants[i]

\* C5: after any sequence of add_constant calls the pool holds no two equal
\* constants, add_constant returns the index of the equal entry if there is
\* one and otherwise the index of the entry it appends, and an index once
\* returned always denotes the same constant
C5_Interning == [] PoolInterned /\ [][PoolKept]_vars

\* add_constant was called with a constant that an earlier call had put in
\* the pool, below other entries
C5_Seen ==
    /\ last.what = "add_constant"
    /\ IsSome(PlaceOf(last.before, last.constant))
    /\ last.index + 1 < Len(last.before)
    /\ Len(compiler.constants) >= 3

\* the next step of the VM is a store-named instruction
AtStoreNamed ==
    /\ pc = "running"
    /\ frames # <<>>
    /\ ~Top.returned
    /\ Top.ip < Len(TopBody)
    /\ IterNext(TopBody, Top.ip).err = ""
    /\ IterNext(TopBody, Top.ip).ins.op = "StoreNamed"

\* C6: every run of the same module has the same outcome, no step of the VM
\* changes the module's constants or globals, and a store-named instruction
\* writes no global but ends the run with an error
C6_IdempotentRun ==
    /\ [] (\A i, j \in 1..Len(outcomes) : outcomes[i] = outcomes[j])
    /\ [][(pc \in {"parsed", "running"}) => module' = module]_vars
    /\ [][AtStoreNamed =>
             /\ Len(outcomes') = Len(outcomes) + 1
             /\ outcomes'[Len(outcomes')].err = "Unsupported"
             /\ pc' = "parsed"]_vars

\* a module was run twice, and a run ended at a store-named instruction
C6_RanTwice ==
    /\ Len(outcomes) = 2
    /\ outcomes[1].err = "Unsupported"
    /\ last.what = "step"
    /\ last.ins.op = "StoreNamed"

\* slot i (from 0) is the one a search of the virtual stack from the top
\* finds for a name
Resolves(slots, name, i) ==
    /\ slots[i + 1].named
    /\ slots[i + 1].name = name
    /\ \A j \in (i + 2)..Len(slots) : ~(slots[j].named /\ slots[j].name = name)

\* no module came out of the compilation, which failed with `e`
NoModule(e) ==
    /\ pc = "compile failed"
    /\ cerr = e
    /\ output = <<>>
    /\ module = None

\* C7: an assignment whose target resolves, from the top of the virtual
\* stack, to a local that is not mutable fails with ImmutableVariable and
\* produces no module; when the local is mutable the assignment emits
\* store-local(i) for exactly the slot i found
C7_ImmutableAssignment ==
    \A k \in 1..Len(compiler.log) :
        LET e == compiler.log[k]
        IN e.what = "assignment" =>
              \A i \in 0..(Len(e.stack) - 1) :
                  Resolves(e.stack, e.name, i) =>
                      IF e.stack[i + 1].mutable
                      THEN e.err = "" /\ e.emitted = <<StoreLocal(i)>>
                      ELSE /\ e.err = "ImmutableVariable"
                           /\ e.emitted = <<>>
                           /\ NoModule("ImmutableVariable")

\* an assignment to a name whose topmost binding is immutable and shadows a
\* mutable one was compiled
C7_Shadowed ==
    \E k \in 1..Len(compiler.log) :
        LET e == compiler.log[k]
        IN /\ e.what = "assignment"
           /\ e.err = "ImmutableVariable"
           /\ \E i, j \in 0..(Len(e.stack) - 1) :
                 /\ j < i
                 /\ Resolves(e.stack, e.name, i)
                 /\ e.stack[j + 1].named
                 /\ e.stack[j + 1].name = e.name
                 /\ e.stack[j + 1].mutable

\* C8: a break or a continue lowered where the function being compiled has
\* no enclosing loop fails with NoLoopToExit, emits no instruction, and no
\* module is produced
C8_NoLoopToExit ==
    \A k \in 1..Len(compiler.log) :
        LET e == compiler.log[k]
        IN e.what \in {"break", "continue"} /\ e.targets = 0 =>
              /\ e.err = "NoLoopToExit"
              /\ e.emitted = <<>>
              /\ NoModule("NoLoopToExit")

\* a break was lowered in a function expression that stands inside a loop
\* of the enclosing function
C8_BreakInFnExpr ==
    /\ ast = <<Main(Yield(<<>>, ExprLoop(Body(<<
                 Do(ExprFn(FnTrunk(<<>>, Body(<<StmtBreak(None)>>))))>>))))>>
    /\ \E k \in 1..Len(compiler.log) :
          compiler.log[k].what = "break" /\ compiler.log[k].targets = 0

Unsupported == {"Use", "Mixin", "Impl"}

HasUnsupported == \E i \in 1..Len(ast) : ast[i].t \in Unsupported

\* the place (from 1) of the first use, impl or mixin declaration
FirstUnsupported ==
    CHOOSE i \in 1..Len(ast) :
        /\ ast[i].t \in Unsupported
        /\ \A j \in 1..(i - 1) : ast[j].t \notin Unsupported

\* C9 as stated: compiling a source file that contains a use, impl or mixin
\* declaration fails with Unsupported, returns no module and writes no bytes
C9_FailsUnsupported ==
    HasUnsupported /\ pc # "compile" => NoModule("Unsupported")

\* C9 amended: compiling a source file that contains a use, impl or mixin
\* declaration fails at the first failing declaration, with Unsupported
\* exactly when that declaration is the use, impl or mixin; later
\* declarations are not processed, no module is returned and no bytes are
\* written
C9_StopsAtFirstFailure ==
    /\ [] (HasUnsupported =>
             /\ pc \in {"compile", "compile failed"}
             /\ output = <<>>
             /\ module = None
             /\ pc = "compile" => cerr = "" /\ next_decl < FirstUnsupported
             /\ pc = "compile failed" =>
                   /\ cerr # ""
                   /\ next_decl <= FirstUnsupported
                   /\ cerr = "Unsupported" <=> next_decl = FirstUnsupported)
    /\ [][pc # "compile failed"]_vars

\* the compiler stopped at a mixin or use declaration that follows a
\* function and precedes another declaration
C9_StoppedInTheMiddle ==
    /\ NoModule("Unsupported")
    /\ next_decl = 2
    /\ Len(ast) = 3
    /\ Len(compiler.constants) > 0

\* C10: no instruction written by the bytecode writer has opcode byte 0,
\* and the instruction decoder returns an error when the byte at an opcode
\* position is 0
C10_OpcodeZero ==
    /\ pc = "written" =>
          \A i \in FunctionIndices(compiler.constants) :
              \A j \in 1..Len(compiler.constants[i].body) :
                  WriteInstruction(compiler.constants[i].body[j])[1] # 0
    /\ last.what = "step" =>
          (Unwrap(module).constants[last.fn + 1].body[last.ip + 1] = 0
              => last.err # "")

\* what the bytes at an offset of a body are: the end of the body, no
\* opcode, an instruction cut off, an operator that does not exist, or an
\* instruction
BytesAt(bytes, offset) ==
    IF offset >= Len(bytes) THEN "end"
    ELSE IF bytes[offset + 1] >= Len(Opcodes) THEN "InvalidOpcode"
    ELSE IF Opcodes[bytes[offset + 1] + 1] \in {"Unit", "True", "False", "Pop", "Return"}
    THEN ""
    ELSE IF offset + 2 > Len(bytes) THEN "IncompleteInstruction"
    ELSE IF \/ /\ Opcodes[bytes[offset + 1] + 1] = "Unary"
               /\ bytes[offset + 2] >= Len(UnaryOperators)
            \/ /\ Opcodes[bytes[offset + 1] + 1] = "Binary"
               /\ bytes[offset + 2] >= Len(BinaryOperators)
    THEN "InvalidInstruction"
    ELSE ""

\* C11: next() returns InvalidOpcode for a byte that is no opcode,
\* IncompleteInstruction when the body ends before the parameter byte,
\* InvalidInstruction for a unary or binary parameter that is no operator;
\* on a well-formed instruction it returns that instruction and advances
\* offset() by exactly its encoded length; at the end of the body it
\* returns None
C11_DecoderErrors ==
    last.what = "next" =>
        LET bytes == TopBody
            at == BytesAt(bytes, last.ip)
        IN IF at = "end"
           THEN ~last.some /\ last.offset = last.ip
           ELSE /\ last.some
                /\ last.err = at
                /\ at = "" =>
                      /\ last.offset = last.ip + InstructionEncodedLen(last.ins)
                      /\ last.offset <= Len(bytes)
                      /\ WriteInstruction(last.ins)
                            = SubSeq(bytes, last.ip + 1, last.offset)
                /\ Top.ip = last.offset

\* next() was called where only the opcode byte of a binary instruction
\* was left, after an instruction had been decoded
C11_CutOff ==
    /\ last.what = "next"
    /\ last.err = "IncompleteInstruction"
    /\ last.ip > 0
    /\ TopBody[last.ip + 1] = 5

\* the step the VM took last was a jump that was taken: a jump, or a
\* jump-if that found true on top of the stack
JumpTaken ==
    /\ last.what = "step"
    /\ last.err = ""
    /\ \/ last.ins.op = "Jump"
       \/ /\ last.ins.op = "JumpIf"
          /\ last.before # <<>>
          /\ last.before[Len(last.before)] = ValueBool(TRUE)

\* where that jump leads: the offset after the jump instruction, plus or
\* minus its parameter
JumpLeadsTo ==
    IF last.ins.sub = "Forward" THEN last.next + last.ins.arg
    ELSE last.next - last.ins.arg

\* C12: a jump out of the body (a backward delta larger than the offset, a
\* forward delta past the end) makes the run return InvalidJump, without
\* aborting; a jump inside the body sets the cursor to offset +- delta
C12_InvalidJump ==
    JumpTaken =>
        IF JumpLeadsTo < 0
              \/ JumpLeadsTo > Len(Unwrap(module).constants[last.fn + 1].body)
        THEN /\ pc = "parsed"
             /\ outcomes # <<>>
             /\ outcomes[Len(outcomes)] = Failed("InvalidJump")
        ELSE /\ frames # <<>>
             /\ Top.ip = JumpLeadsTo

\* what call(arity) must answer on a stack: the error, or "" for a callee
\* that is entered
CallAnswer(constants, st, arity) ==
    IF Len(st) < arity + 1 THEN "EmptyStack"
    ELSE IF st[Len(st) - arity].k # "Function" THEN "TypeError"
    ELSE IF constants[st[Len(st) - arity].f + 1].arity # arity THEN "ValueError"
    ELSE ""

\* C13: call(arity) returns EmptyStack when the stack holds fewer than
\* arity + 1 values, TypeError when the value at len - arity - 1 is no
\* function, ValueError when the function's arity is not the call's, and
\* then executes no instruction of any callee
C13_CallDispatch ==
    last.what = "step" /\ last.err = "" /\ last.ins.op = "Call" =>
        LET answer == CallAnswer(Unwrap(module).constants, last.before, last.ins.arg)
        IN /\ last.fault = answer
           /\ IF answer # ""
              THEN /\ pc = "parsed"
                   /\ frames = <<>>
                   /\ outcomes # <<>>
                   /\ outcomes[Len(outcomes)] = Failed(answer)
              ELSE /\ pc = "running"
                   /\ Len(frames) = last.depth + 1
                   /\ Top.ip = 0
                   /\ Top.fn = last.before[Len(last.before) - last.ins.arg].f
                   /\ Len(stack) = Len(last.before) - 1

\* a function called a function with one argument too many
C13_WrongArityInside ==
    /\ last.what = "step"
    /\ last.ins.op = "Call"
    /\ last.fault = "ValueError"
    /\ last.depth = 2
    /\ last.ins.arg = 1

\* the step the VM took last raised an error (a panic is no error)
ErrorRaised ==
    /\ last.what = "step"
    /\ last.fault \notin {"", "panic: jump", "panic: todo"}

\* C14: once an instruction raises an error, at any call depth, no further
\* instruction of any frame is executed, no stack or module state changes,
\* and Vm::run returns that error
C14_FailurePropagation ==
    /\ [] (ErrorRaised =>
              /\ pc = "parsed"
              /\ frames = <<>>
              /\ stack = <<>>
              /\ outcomes # <<>>
              /\ outcomes[Len(outcomes)] = Failed(last.fault))
    /\ [][ErrorRaised =>
              /\ last'.what = "none"
              /\ run' = run + 1
              /\ module' = module
              /\ outcomes' = outcomes \/ Len(outcomes') = Len(outcomes) + 1]_vars
    /\ [][(pc = "running") => module' = module]_vars

\* an instruction of a callee raised an error with instructions left after it
C14_FailedInside ==
    /\ ErrorRaised
    /\ last.depth = 2
    /\ last.fault = "TypeError"
    /\ last.next < Len(Unwrap(module).constants[last.fn + 1].body)
    /\ outcomes[Len(outcomes)].err = "TypeError"

\* the operators for which the order of the operands matters, each with the
\* operands `a op b` of a program of OperatorPrograms
OrderedCases ==
    { <<"Subtract", 20, 62>>, <<"Divide", 84, 2>>, <<"Modulo", 242, 100>>,
      <<"RightShift", 168, 2>>, <<"LeftShift", 21, 1>>, <<"Greater", 69, 42>>,
      <<"GreaterEquals", 42, 69>>, <<"Less", 42, 69>>, <<"LessEquals", 69, 42>> }

\* a op b of mathematics, for an operator of OrderedCases, a the left operand
LeftOpRight(operator, a, b) ==
    LET within(n) == (0 - Abs(n))..Abs(n)
    IN CASE operator = "Subtract" -> ValueNumber(a - b)
         [] operator = "Divide" -> ValueNumber(CHOOSE q \in within(a) : q * b = a)
         [] operator = "Modulo" ->
               ValueNumber(CHOOSE r \in within(b) :
                               /\ Abs(r) < Abs(b)
                               /\ r = 0 \/ (r < 0) = (a < 0)
                               /\ \E q \in within(a) : a = q * b + r)
         [] operator = "LeftShift" -> ValueNumber(a * Pow2(b))
         [] operator = "RightShift" ->
               ValueNumber(CHOOSE r \in within(a) :
                               r * Pow2(b) <= a /\ a < (r + 1) * Pow2(b))
         [] operator = "Greater" -> ValueBool(a > b)
         [] operator = "GreaterEquals" -> ValueBool(a >= b)
         [] operator = "Less" -> ValueBool(a < b)
         [] operator = "LessEquals" -> ValueBool(a <= b)

\* the program is fn main() { a op b } for a case of OrderedCases
IsOrderedCase(c) == ast = BinaryMain(c[1], c[2], c[3])

\* C15: for `a op b` the compiler emits the code of a, then of b, then
\* binary(op); binary(op) of the VM removes exactly the two top values and
\* pushes exactly one, which is left op right with left the value pushed
\* first, so that the program's result is a op b
C15_OperandOrder ==
    /\ \A c \in OrderedCases :
          IsOrderedCase(c) /\ pc \notin {"compile", "compile failed"} =>
              LET main == compiler.constants[CHOOSE i \in FunctionIndices(compiler.constants) : TRUE]
                  code == main.body
              IN /\ cerr = ""
                 /\ Len(code) >= 3
                 /\ code[1].op = "Constant" /\ code[2].op = "Constant"
                 /\ compiler.constants[code[1].arg + 1] = NumberConstant(c[2])
                 /\ compiler.constants[code[2].arg + 1] = NumberConstant(c[3])
                 /\ code[3] = Binary(c[1])
                 /\ outcomes # <<>> =>
                       outcomes[Len(outcomes)] = Returned(LeftOpRight(c[1], c[2], c[3]))
    /\ last.what = "step" /\ last.err = "" /\ last.ins.op = "Binary" /\ last.fault = "" =>
          LET n == Len(last.before)
              left == last.before[n - 1]
              right == last.before[n]
          IN /\ n >= 2
             /\ Len(stack) = n - 1
             /\ SubSeq(stack, 1, n - 2) = SubSeq(last.before, 1, n - 2)
             /\ \A c \in OrderedCases :
                   c[1] = last.ins.sub /\ left.k = "Number" /\ right.k = "Number"
                       /\ right.n # 0 =>
                       stack[n - 1] = LeftOpRight(c[1], left.n, right.n)

\* 20 - 62 has been run: binary(Subtract) has left -42 on the stack
C15_Subtracted ==
    /\ IsOrderedCase(<<"Subtract", 20, 62>>)
    /\ last.what = "step" /\ last.ins = Binary("Subtract") /\ last.fault = ""
    /\ last.before = <<ValueNumber(20), ValueNumber(62)>>
    /\ stack = <<ValueNumber(-42)>>

FailedEmptyStack == last.err = "EmptyStack" /\ stack = last.before

\* C17: pop_all_under(i) with i < len removes exactly the values at
\* positions i .. len-2: the stack then has length i + 1, positions
\* 0 .. i-1 are unchanged and the former top is on top; with i >= len it
\* fails with EmptyStack and leaves the stack unchanged; pop on the empty
\* stack, pop_deep(i) with i >= len and pop_multiple(n) with n > len fail
\* with EmptyStack and leave the stack unchanged
C17_StackOperations ==
    LET len == Len(last.before)
    IN /\ last.what = "pop_all_under" =>
             IF last.index < len
             THEN /\ last.err = ""
                  /\ Len(stack) = last.index + 1
                  /\ \A j \in 1..last.index : stack[j] = last.before[j]
                  /\ stack[last.index + 1] = last.before[len]
             ELSE FailedEmptyStack
       /\ last.what = "pop" /\ len = 0 => FailedEmptyStack
       /\ last.what = "pop_deep" /\ last.index >= len => FailedEmptyStack
       /\ last.what = "pop_multiple" /\ last.count > len => FailedEmptyStack

\* pop_all_under(0) has removed the value under the top of a stack of two
C17_RemovedUnderTop ==
    /\ last.what = "pop_all_under" /\ last.index = 0
    /\ last.before = <<ValueNumber(2), ValueBool(TRUE)>>
    /\ stack = <<ValueBool(TRUE)>>

\* C19: << and >> return a Number when both operands are integer-valued
\* numbers and the right one fits a machine-sized signed integer, &, ^ and |
\* when both are integer-valued numbers; otherwise they fail with TypeError;
\* the VM never aborts and pushes nothing on failure (the numbers drawn are
\* all integers that fit isize)
C19_ShiftBitwiseChecks ==
    last.what = "binary" /\ Len(last.before) >= 2
        /\ last.operator \in {"RightShift", "LeftShift", "BitAnd", "BitXor", "BitOr"} =>
        LET n == Len(last.before)
            left == last.before[n - 1]
            right == last.before[n]
        IN IF left.k = "Number" /\ right.k = "Number"
           THEN /\ last.err = ""
                /\ Len(stack) = n - 1
                /\ stack[n - 1].k = "Number"
           ELSE /\ last.err = "TypeError"
                /\ Len(stack) < n

\* how many backslashes stand in a row right before position i of a
\* literal, the opening quote left aside
BackslashRun(literal, i) ==
    CHOOSE k \in 0..(i - 2) :
        /\ \A j \in (i - k)..(i - 1) : literal[j] = Backslash
        /\ k < i - 2 => literal[i - k - 1] # Backslash

\* the character at position i is the second character of an escape
Escaped(literal, i) == BackslashRun(literal, i) % 2 = 1

\* an opening quote, a closing quote that ends the literal, no quote of its
\* own in between, and only the five escapes
WellFormedLiteral(literal) ==
    /\ Len(literal) >= 2
    /\ literal[1] = Quote
    /\ literal[Len(literal)] = Quote
    /\ ~Escaped(literal, Len(literal))
    /\ \A i \in 2..(Len(literal) - 1) :
          /\ literal[i] = Quote => Escaped(literal, i)
          /\ Escaped(literal, i) => literal[i] \in {Backslash, Quote, 110, 114, 116}

\* a string written with the five escapes
RECURSIVE EscapeAll(_)
EscapeAll(string) ==
    IF string = <<>> THEN <<>>
    ELSE LET ch == Head(string)
         IN (CASE ch = Backslash -> <<Backslash, Backslash>>
               [] ch = Quote -> <<Backslash, Quote>>
               [] ch = 10 -> <<Backslash, 110>>
               [] ch = 13 -> <<Backslash, 114>>
               [] ch = 9 -> <<Backslash, 116>>
               [] OTHER -> <<ch>>) \o EscapeAll(Tail(string))

\* C20: string_from_literal returns the characters between the opening and
\* the closing double quote with \\, \", \n, \r, \t replaced by backslash,
\* double quote, newline, carriage return and tab, and fails, returning no
\* string, for any other escape, an escape cut off by the end of the input,
\* a missing opening quote, a missing closing quote, or content after the
\* closing quote
C20_StringLiteral ==
    last.what = "string_from_literal" =>
        IF WellFormedLiteral(last.literal)
        THEN /\ last.err = ""
             /\ EscapeAll(last.string) = Slice(last.literal, 1, Len(last.literal) - 1)
        ELSE /\ last.err # ""
             /\ last.string = <<>>

\* the literal "\n" has given a newline
C20_Unescaped ==
    /\ last.what = "string_from_literal"
    /\ last.literal = <<Quote, Backslash, 110, Quote>>
    /\ last.err = ""
    /\ last.string = <<10>>

\* the index refers to a String constant of the pool
StringRef(constants, index) ==
    index < Len(constants) /\ constants[index + 1].k = "String"

\* the name and value index of each global and the name index and the
\* field-name indices of each struct of the tables written refer to
\* constants, the name indices to strings
TablesValid(c) ==
    /\ \A name \in DOMAIN c.globals :
          /\ StringRef(c.constants, name)
          /\ c.globals[name] < Len(c.constants)
    /\ \A name \in DOMAIN c.struct_types :
          /\ StringRef(c.constants, name)
          /\ \A i \in 1..Len(c.struct_types[name].fields) :
                StringRef(c.constants, c.struct_types[name].fields[i])

\* the names of the String constants of a pool
StringsOf(constants) ==
    {constants[i].s : i \in {j \in 1..Len(constants) : constants[j].k = "String"}}

\* C18: every module that parse_bytecode returns has, for each global, a
\* name and a value index, and for each struct a name index and field-name
\* indices, smaller than the number of constants, the name indices
\* referring to String constants; an input violating this is rejected with
\* a constant-reference error and yields no module
C18_ModuleInvariants ==
    /\ IsSome(module) =>
          LET m == Unwrap(module)
              names == StringsOf(m.constants)
          IN /\ \A name \in DOMAIN m.globals :
                   name \in names /\ m.globals[name] < Len(m.constants)
             /\ \A name \in DOMAIN m.structs :
                   /\ name \in names
                   /\ \A i \in 1..Len(m.structs[name].fields) :
                         m.structs[name].fields[i] \in names
    /\ last.what = "parse_bytecode" =>
          IF TablesValid(compiler)
          THEN /\ last.err = ""
               /\ IsSome(module)
          ELSE /\ last.err \in {"InvalidConstantRef", "InvalidConstantRefType"}
               /\ module = None

\* C21: a use of name n compiles to load-local(i) with i the highest slot
\* of the virtual stack that holds a variable named n, so that the latest
\* binding in scope shadows earlier ones and a binding whose block has ended
\* is not found; it compiles to load-named of the interned name when no
\* slot holds a variable named n
C21_IdentifierResolution ==
    /\ \A k \in 1..Len(compiler.log) :
          LET e == compiler.log[k]
              holding == {i \in 0..(Len(e.stack) - 1) :
                             e.stack[i + 1].named /\ e.stack[i + 1].name = e.name}
          IN e.what = "identifier" =>
                /\ e.err = ""
                /\ Len(e.emitted) = 1
                /\ IF holding # {}
                   THEN /\ e.emitted[1].op = "LoadLocal"
                        /\ e.emitted[1].arg \in holding
                        /\ \A i \in holding : i <= e.emitted[1].arg
                   ELSE /\ e.emitted[1].op = "LoadNamed"
                        /\ e.emitted[1].arg < Len(compiler.constants)
                        /\ compiler.constants[e.emitted[1].arg + 1] = StringConstant(e.name)
    /\ ast = EndedBlock =>
          /\ \A k \in 1..Len(compiler.log) :
                compiler.log[k].what = "identifier" =>
                    compiler.log[k].stack = <<Var(id_x, FALSE)>>
          /\ \A r \in 1..Len(outcomes) : outcomes[r] = Returned(ValueNumber(1))
    /\ ast = ShadowedParameter =>
          \A r \in 1..Len(outcomes) : outcomes[r] = Returned(ValueNumber(2))

\* a parameter shadowed by a let of the same name was used
C21_UsedShadowed ==
    /\ ast = ShadowedParameter
    /\ \E k \in 1..Len(compiler.log) :
          /\ compiler.log[k].what = "identifier"
          /\ compiler.log[k].stack = <<Var(id_a, FALSE), Var(id_a, FALSE)>>
          /\ compiler.log[k].emitted = <<LoadLocal(1)>>
    /\ outcomes # <<>>

\* the three assertions at the end of visit_block, on a logged block
BlockAssertions(e) ==
    /\ Len(e.stack) = e.depth + e.locals + 1
    /\ \A i \in (e.depth + 1)..(e.depth + e.locals) : i <= Len(e.stack) => e.stack[i].named
    /\ \A i \in {e.depth + e.locals + 1} : i <= Len(e.stack) => ~e.stack[i].named

\* C22: whenever visit_block reaches the end of a block the virtual stack
\* is entry depth + let declarations of the block + 1 long, the slots of
\* the declarations are named and the top slot is anonymous: the assertions
\* never fail, whatever blocks, if, loop, break, continue and return the
\* block holds
C22_BlockAssertions ==
    /\ cerr # "panic: assert"
    /\ \A k \in 1..Len(compiler.log) :
          compiler.log[k].what = "block" => BlockAssertions(compiler.log[k])

\* C23: after lowering a break, with or without a value, or a continue, the
\* virtual stack has the same length and the same variable descriptors as
\* before the statement, however many let-declared locals and anonymous
\* temporaries lie between the loop's entry depth and the statement
C23_JumpStackEffect ==
    \A k \in 1..Len(compiler.log) :
        LET e == compiler.log[k]
        IN e.what \in {"break", "continue"} /\ e.targets > 0 =>
              /\ e.err = ""
              /\ e.after = e.stack

\* C24: every placeholder pushed while a function is lowered is replaced by
\* a real jump of its kind exactly once before the function is finished, a
\* slot that holds a real instruction is never overwritten, and a function
\* body with a placeholder in it is never returned
C24_PlaceholdersFilled ==
    /\ cerr \notin {"panic: assert slot", "InvalidBytecode"}
    /\ \A k \in 1..Len(compiler.log) :
          LET e == compiler.log[k]
          IN e.what = "function" =>
                /\ \A j \in 1..Len(e.filled) :
                      /\ e.filled[j].was = PlaceholderItem(e.filled[j].kind)
                      /\ e.filled[j].item.op = e.filled[j].kind
                      /\ \E p \in 1..Len(e.placed) :
                            e.placed[p] = [index |-> e.filled[j].index,
                                           kind |-> e.filled[j].kind]
                      /\ \A i \in 1..Len(e.filled) :
                            e.filled[i].index = e.filled[j].index => i = j
                /\ e.err = "" =>
                      /\ e.left = {}
                      /\ e.returned
                      /\ \A p \in 1..Len(e.placed) :
                            \E j \in 1..Len(e.filled) :
                                e.filled[j].index = e.placed[p].index
                /\ e.returned => e.left = {}

\* a function with the placeholders of an if, of a loop, of a break and of
\* a continue was finished
C24_FilledAll ==
    \E k \in 1..Len(compiler.log) :
        LET e == compiler.log[k]
        IN /\ e.what = "function" /\ e.err = "" /\ e.returned
           /\ Len(e.placed) >= 5
           /\ Len(e.filled) = Len(e.placed)
           /\ \E p \in 1..Len(e.placed) : e.placed[p].kind = "JumpIf"
           /\ \E j \in 1..Len(e.filled) : e.filled[j].item.sub = "Backward"

\* the byte offset at which the instruction with an index (from 0) starts
ByteAt(code, index) == RangeEncodedLen(code, 0, index)

\* the byte offset a jump at an index of a function's instructions leads to
JumpTargetByte(code, index) ==
    LET jump == code[index + 1]
    IN IF jump.sub = "Forward" THEN ByteAt(code, index + 1) + jump.arg
       ELSE ByteAt(code, index + 1) - jump.arg

\* the functions whose lowering has ended without an error
CompiledFunctions ==
    {k \in 1..Len(compiler.log) :
        compiler.log[k].what = "function" /\ compiler.log[k].err = ""}

\* the break and continue statements and the loops of a function, by their
\* places in the log
JumpsOf(f) ==
    {k \in 1..Len(compiler.log) :
        /\ compiler.log[k].what \in {"break", "continue"}
        /\ compiler.log[k].fn = compiler.log[f].fn}
LoopsOf(f) ==
    {k \in 1..Len(compiler.log) :
        compiler.log[k].what = "loop" /\ compiler.log[k].fn = compiler.log[f].fn}

\* the innermost loop around a statement: the first loop of the function, at
\* the nesting of the statement, that ends after the statement
EnclosingLoops(f, k) ==
    {l \in LoopsOf(f) : l > k /\ compiler.log[l].targets = compiler.log[k].targets}
InnermostLoop(f, k) == Minimum(EnclosingLoops(f, k))

\* where the jumps of a function lead: a break to the instruction after the
\* closing jump of its loop, a continue and the closing jump to the first
\* instruction of the loop's body
LoopJumpsLowered(f) ==
    LET code == compiler.log[f].code
    IN /\ \A l \in LoopsOf(f) :
             LET loop == compiler.log[l]
             IN /\ code[loop.close + 1].op = "Jump"
                /\ code[loop.close + 1].sub = "Backward"
                /\ JumpTargetByte(code, loop.close) = ByteAt(code, loop.start)
       /\ \A k \in JumpsOf(f) :
             LET jump == compiler.log[k]
                 loop == compiler.log[InnermostLoop(f, k)]
             IN /\ jump.err = ""
                /\ EnclosingLoops(f, k) # {}
                /\ code[jump.index + 1].op = "Jump"
                /\ jump.depth = loop.depth
                /\ IF jump.what = "break"
                   THEN JumpTargetByte(code, jump.index) = ByteAt(code, loop.close + 1)
                   ELSE JumpTargetByte(code, jump.index) = ByteAt(code, loop.start)

\* where a jump that the VM has just executed has arrived: a break after its
\* loop, one value above the depth at which the loop was entered, a continue
\* and the closing jump at the start of the loop's body, at that depth
LoopJumpArrived(f) ==
    LET code == compiler.log[f].code
        index == Unwrap(InstructionAt(code, last.ip))
        arrived(byte, height) ==
            /\ pc = "running"
            /\ Len(frames) = last.depth
            /\ Top.ip = byte
            /\ Len(stack) - Top.offset = height
            /\ stack = last.before
    IN /\ \A l \in LoopsOf(f) :
             compiler.log[l].close = index =>
                 arrived(ByteAt(code, compiler.log[l].start), compiler.log[l].depth)
       /\ \A k \in JumpsOf(f) :
             compiler.log[k].index = index /\ EnclosingLoops(f, k) # {} =>
                 LET loop == compiler.log[InnermostLoop(f, k)]
                 IN IF compiler.log[k].what = "break"
                    THEN arrived(ByteAt(code, loop.close + 1), loop.depth + 1)
                    ELSE arrived(ByteAt(code, loop.start), loop.depth)

\* fn main() { loop { loop { break; }; break 42; } }
NestedLoops ==
    <<Main(Yield(<<>>, ExprLoop(Body(<<
        Do(ExprLoop(Body(<<StmtBreak(None)>>))), StmtBreak(Some(Num(42)))>>))))>>

\* C25: in every function that compiled, a break jumps to the instruction
\* after the closing backward jump of the innermost loop around it, a
\* continue and the closing jump of a loop jump to the first instruction of
\* that loop's body; at run time a break arrives with the stack one above
\* the depth at which the loop was entered, the break value on top, a
\* continue and the closing jump arrive at that depth; the break of an inner
\* loop leaves the outer loop running
C25_LoopTargets ==
    /\ \A f \in CompiledFunctions : LoopJumpsLowered(f)
    /\ last.what = "step" /\ last.err = "" /\ last.ins.op = "Jump" =>
          \A f \in CompiledFunctions :
              (/\ compiler.log[f].code = compiler.constants[last.fn + 1].body
               /\ IsSome(InstructionAt(compiler.log[f].code, last.ip)))
                  => LoopJumpArrived(f)
    /\ ast = NestedLoops =>
          \A i \in 1..Len(outcomes) : outcomes[i] = Returned(ValueNumber(42))

\* the if chains of a function, by their places in the log
ChainsOf(f) ==
    {k \in 1..Len(compiler.log) :
        compiler.log[k].what = "if" /\ compiler.log[k].fn = compiler.log[f].fn}

\* how a chain is laid out: condition, jump-if, block, end jump, in source
\* order, then the else block or the one instruction that pushes unit
ChainLowered(f) ==
    LET code == compiler.log[f].code
    IN \A k \in ChainsOf(f) :
          LET chain == compiler.log[k]
              n == Len(chain.conds)
          IN /\ Len(chain.ends) = n
             /\ chain.start < chain.conds[1]
             /\ \A i \in 1..n :
                   /\ chain.conds[i] < chain.ends[i]
                   /\ code[chain.conds[i] + 1].op = "JumpIf"
                   /\ code[chain.conds[i]] = Unary("Not")
                   /\ code[chain.ends[i] + 1].op = "Jump"
                   /\ i < n => chain.ends[i] + 1 < chain.conds[i + 1]
             /\ chain.ends[n] < chain.end
             /\ ~chain.else =>
                   /\ chain.end = chain.ends[n] + 2
                   /\ code[chain.end] = InlineUnit
             /\ Len(chain.after) = chain.depth + 1

\* what a step of the VM inside a chain has done: the jump-if after a
\* condition goes on with the block when the condition was true and with the
\* next condition, or the else, when it was false; the jump that ends a
\* block arrives after the whole chain; whoever arrives after the chain has
\* added one value
ChainStepped(f) ==
    LET code == compiler.log[f].code
        index == Unwrap(InstructionAt(code, last.ip))
        arrived(to, height) ==
            /\ pc = "running"
            /\ Len(frames) = last.depth
            /\ Top.ip = ByteAt(code, to)
            /\ Len(stack) - Top.offset = height
    IN \A k \in ChainsOf(f) :
          LET chain == compiler.log[k]
          IN /\ \A i \in 1..Len(chain.conds) :
                   /\ chain.conds[i] = index =>
                         IF last.before[Len(last.before)] = ValueBool(TRUE)
                         THEN arrived(chain.ends[i] + 1, chain.depth)
                         ELSE arrived(index + 1, chain.depth)
                   /\ chain.ends[i] = index => arrived(chain.end, chain.depth + 1)
             /\ (/\ pc = "running"
                 /\ Len(frames) = last.depth
                 /\ ~Top.returned
                 /\ index >= chain.start
                 /\ index < chain.end
                 /\ Top.ip = ByteAt(code, chain.end))
                    => Len(stack) - Top.offset = chain.depth + 1

\* what main of IfChain(c1, c2, else) returns: the trace of the conditions
\* and blocks that ran, followed by the value of the chain if there is an
\* else
ChainResult(c1, c2, else) ==
    IF else THEN (IF c1 THEN 127 ELSE IF c2 THEN 1348 ELSE 1359)
    ELSE (IF c1 THEN 12 ELSE IF c2 THEN 134 ELSE 13)

\* C26: an if chain that runs evaluates its conditions in source order, runs
\* the block of the first condition that is true and goes on after the whole
\* chain, evaluating no later condition and no other block; when no
\* condition is true it runs the else block, or pushes unit when there is
\* none; the chain adds exactly one value to the stack
C26_IfChainOrdering ==
    /\ \A f \in CompiledFunctions : ChainLowered(f)
    /\ last.what = "step" /\ last.err = "" =>
          \A f \in CompiledFunctions :
              (/\ compiler.log[f].code = compiler.constants[last.fn + 1].body
               /\ IsSome(InstructionAt(compiler.log[f].code, last.ip)))
                  => ChainStepped(f)
    /\ \A c1, c2, else \in BOOLEAN :
          ast = IfChain(c1, c2, else) =>
              /\ cerr = ""
              /\ \A i \in 1..Len(outcomes) :
                    outcomes[i] = Returned(ValueNumber(ChainResult(c1, c2, else)))

\* the number of bytes writer::function emits for the first instructions of
\* a sequence
WrittenLen(code, count) == Len(WriteBody(SubSeq(code, 1, count)))

\* the lengths of one instruction agree: encoded_len, the bytes written, and
\* 1 for inline-constant, pop and return, 2 for the others
LengthsAgree(ins) ==
    /\ InstructionEncodedLen(ins) = Len(WriteInstruction(ins))
    /\ InstructionEncodedLen(ins) =
          IF ins.op \in {"InlineConstant", "Pop", "Return"} THEN 1 ELSE 2

\* C27: for every instruction, encoded_len is the number of bytes the writer
\* emits and the number of bytes the decoder consumes (1 for inline-constant,
\* pop and return, 2 for the others); a placeholder is as long as the jump
\* that replaces it; and so the offset a patched jump was given leads, in the
\* bytes written, to the byte at which the instruction it was aimed at starts
C27_EncodedLenAgreement ==
    /\ \A ins \in LenInstructions : LengthsAgree(ins)
    /\ \A i \in 1..Len(compiler.filled) :
          PlaceholderEncodedLen(compiler.filled[i].kind)
              = InstructionEncodedLen(compiler.filled[i].item)
    /\ pc = "iterating" =>
          LET code == compiler.instructions
          IN /\ Len(output) = RangeEncodedLen(code, 0, Len(code))
             /\ \A j \in 0..Len(code) : WrittenLen(code, j) = ByteAt(code, j)
             /\ \A i \in 1..Len(outcomes) :
                   JumpTargetByte(code, outcomes[i].index)
                       = WrittenLen(code, outcomes[i].to)
             /\ last.what = "next" /\ last.some =>
                   /\ last.err = ""
                   /\ IsSome(InstructionAt(code, last.ip))
                   /\ LET ins == code[Unwrap(InstructionAt(code, last.ip)) + 1]
                      IN /\ last.offset - last.ip = InstructionEncodedLen(ins)
                         /\ last.ins.op = ins.op

\* a placeholder was patched to jump forward over an instruction of one
\* byte, and the decoder has read the jump back from the bytes written
C27_PatchedAndDecoded ==
    /\ pc = "iterating"
    /\ outcomes = <<[index |-> 0, to |-> 2]>>
    /\ last.what = "next" /\ last.some
    /\ last.ip = 0
    /\ last.ins = Jump("Forward", 1)
    /\ last.offset = 2

\* the indices (from 0) of the backward jumps of a sequence of instructions
BackwardJumps(code) ==
    {j \in 0..(Len(code) - 1) :
        code[j + 1].op \in {"Jump", "JumpIf"} /\ code[j + 1].sub = "Backward"}

\* the backward jumps of a function are the closing jumps of its loops and
\* the jumps of its continue statements; the jumps of its if chains and of
\* its break statements are forward
BackwardFromLoops(f) ==
    LET code == compiler.log[f].code
        closing == {compiler.log[l].close : l \in LoopsOf(f)}
        continues == {compiler.log[k].index :
                         k \in {j \in JumpsOf(f) : compiler.log[j].what = "continue"}}
        breaks == {compiler.log[k].index :
                      k \in {j \in JumpsOf(f) : compiler.log[j].what = "break"}}
        chained == UNION {Range(compiler.log[k].conds) \cup Range(compiler.log[k].ends) :
                             k \in ChainsOf(f)}
    IN /\ BackwardJumps(code) \subseteq closing \cup continues
       /\ \A j \in breaks \cup chained :
             code[j + 1].op \in {"Jump", "JumpIf"} /\ code[j + 1].sub = "Forward"

\* the function a frame of the VM executes was compiled from a body without
\* loop
LoopFreeFunction(fn) ==
    \E f \in CompiledFunctions :
        /\ compiler.log[f].code = compiler.constants[fn + 1].body
        /\ LoopsOf(f) = {}

\* an instruction of a function without loop has been executed: the function
\* goes on, if it does, further down its body
SteppedDown ==
    (/\ last.what = "step"
     /\ last.err = ""
     /\ LoopFreeFunction(last.fn)
     /\ pc = "running")
        => /\ Len(frames) >= last.depth
           /\ frames[last.depth].ip > last.ip
           /\ frames[last.depth].ip <= Len(Unwrap(module).constants[last.fn + 1].body)

\* no function of the program has a loop
LoopFree ==
    /\ cerr = ""
    /\ \A k \in 1..Len(compiler.log) : compiler.log[k].what # "loop"

FramesIsolated ==
    \A k \in 1..Len(frames) :
        /\ Len(stack) >= frames[k].offset
        /\ SubSeq(stack, 1, frames[k].offset) = frames[k].below

\* C29: while a compiled function executes with the frame offset o, nested
\* calls included, no position of the stack below o is read as a local,
\* written or removed, and when the call completes the positions 0..o-1 hold
\* what they held before the call
C29_FrameIsolation ==
    /\ pc = "running" => FramesIsolated
    /\ (last.what = "step" /\ last.fault = "" /\ last.ins.op = "LoadLocal") =>
          stack[Len(stack)] = last.before[Len(last.before) - last.height + last.ins.arg + 1]
    /\ (last.what = "call" /\ last.err = "") =>
          SubSeq(last.stack, 1, last.offset) = last.below

\* the events of the log of one kind
EventsOf(what) == {k \in 1..Len(compiler.log) : compiler.log[k].what = what}

\* the events logged while the body of a function expression was lowered
InnerEvents(e) ==
    {k \in 1..Len(compiler.log) :
        /\ compiler.log[k].what \in {"identifier", "break", "continue", "function"}
        /\ compiler.log[k].fn = compiler.log[e].inner}

\* the names of the slots of a virtual stack
NamesOf(slots) == {slots[i].name : i \in {j \in 1..Len(slots) : slots[j].named}}

\* what the lowering of one function expression did: its body was lowered on
\* a virtual stack that began as its parameters, with no loop target; a name
\* of the function around it that the body does not bind became a load-named;
\* a break or continue outside the loops of the body failed; the function
\* around it got one slot, for the load-constant, and kept its loop targets
FnLoweredApart(e) ==
    LET fn == compiler.log[e]
    IN /\ \A k \in InnerEvents(e) :
             LET inner == compiler.log[k]
             IN /\ inner.what = "function" =>
                      /\ inner.entry = fn.parameters
                      /\ inner.entry_targets = 0
                /\ inner.what = "identifier" =>
                      /\ SubSeq(inner.stack, 1, Len(fn.parameters)) = fn.parameters
                      /\ (/\ inner.err = ""
                          /\ inner.name \in NamesOf(fn.stack)
                          /\ inner.name \notin NamesOf(inner.stack))
                             => /\ Len(inner.emitted) = 1
                                /\ inner.emitted[1].op = "LoadNamed"
                /\ (inner.what \in {"break", "continue"} /\ inner.targets = 0) =>
                      inner.err = "NoLoopToExit"
       /\ fn.err = "" =>
             /\ fn.after = Append(fn.stack, NoVar)
             /\ Len(fn.emitted) = 1
             /\ fn.emitted[1].op = "Constant"
             /\ fn.targets_after

\* C30: the body of a function expression is lowered on a virtual stack that
\* holds its parameters only and with no loop target: a name of a local of
\* the function around it becomes a load-named, never a load-local of that
\* slot; break and continue outside a loop of the body fail with
\* NoLoopToExit, whether or not the expression is in a loop; the function
\* around it gets the one slot of the load-constant
C30_FreshFnContext ==
    /\ \A e \in EventsOf("fn") : FnLoweredApart(e)
    /\ \A jump \in {StmtBreak(None), StmtContinue} :
          (ast = JumpOutOfFn(jump) /\ next_decl > 0) => cerr = "NoLoopToExit"
    /\ (ast = CapturedLocal /\ pc # "compile") =>
          /\ cerr = ""
          /\ \E k \in EventsOf("identifier") :
                /\ compiler.log[k].name = id_x
                /\ compiler.log[k].stack = <<Variable(id_y, FALSE)>>
                /\ compiler.log[k].emitted[1].op = "LoadNamed"
          /\ \A i \in 1..Len(outcomes) : outcomes[i] = Failed("NameError")
    /\ ast = OwnParameter =>
          \A i \in 1..Len(outcomes) : outcomes[i] = Returned(ValueNumber(2))
    /\ ast = LoopInFn =>
          /\ cerr = ""
          /\ \A i \in 1..Len(outcomes) : outcomes[i] = Returned(ValueNumber(42))

\* a function expression that names a local of the function around it was
\* lowered, inside a function that holds that local, and has been called
C30_NamedEnclosingLocal ==
    /\ ast = CapturedLocal
    /\ \E e \in EventsOf("fn") :
          /\ compiler.log[e].err = ""
          /\ id_x \in NamesOf(compiler.log[e].stack)
    /\ outcomes = <<Failed("NameError")>>

====
